---- MODULE Spec2Model ----
(***************************************************************************)
(* Model of the ingestion pipeline of the real-estate scraper:             *)
(*   - BaseScraper._respect_rate_limit / make_request (rate limiting and   *)
(*     retry with backoff), sequentially and under concurrent callers;     *)
(*   - MyHomeAdvancedScraper (page loop, batch processing, bulk save);     *)
(*   - DeduplicationService (tiered duplicate search, address            *)
(*     similarity, replace decision);                                      *)
(*   - DatabaseService (save_property, update_property, cleanup).          *)
(* Time is counted in whole seconds.                                       *)
(***************************************************************************)
EXTENDS Integers, Sequences, FiniteSets, TLC

VARIABLES
    cfg,            \* ScrapingConfig values the modelled code reads
    now,            \* wall clock, time.time()
    request_times,  \* BaseScraper.request_times
    sent,           \* history: the clock value at which each HTTP request was sent
    req,            \* the make_request call in progress or last finished
    stats,          \* BaseScraper.stats (ScrapingStats counters)
    thr,            \* concurrent callers of _respect_rate_limit: position and locals
    admitted,       \* history: the timestamp each finished _respect_rate_limit call reserved
    store,          \* the committed rows of the properties table, in insertion order
    seen_property_ids, \* MyHomeAdvancedScraper.seen_property_ids
    run,            \* position and locals of scrape() / _scrape_properties
    page_in,        \* history: the listings of the page handled last and how its batch ended
    cand,           \* the PropertyData handed to find_duplicates
    fd,             \* what find_duplicates returned for cand
    addr,           \* the two addresses handed to _calculate_address_similarity and its result
    norm,           \* the raw listing handed to process_property and what it returned
    related,        \* the committed rows of property_images, property_parameters, property_prices
    op,             \* the DatabaseService call made: its arguments and its outcome
    hp,             \* HighPerformancePropertyScraper: shutdown flag, batch loop, pages in flight
    built,          \* the ScrapingConfig handed to MyHomeAdvancedScraper() and how __init__ ended
    ml,             \* MultilingualWorker handling one property: the row, the worker's copy, the fetches
    mb,             \* run_multilingual_batch: the properties table and the loop
    ret             \* ingestion runs and cleanups over the days: the table with last_scraped

pipevars == <<store, seen_property_ids, run, page_in>>
dedupvars == <<cand, fd, addr, norm>>
dbvars == <<related, op>>
reqvars == <<now, request_times, sent, req, thr, admitted>>
extvars == <<built, ml, mb, ret>>
vars == <<cfg, now, request_times, sent, req, stats, thr, admitted, pipevars, dedupvars, dbvars, hp, extvars>>

----------------------------------------------------------------------------
(* Bounds of the model *)

\* the clock stops advancing here
MaxTime == 125
\* HTTP requests sent in one behaviour (3 x rate_limit_per_minute)
MaxCalls == 6
\* largest max_retries tried
MaxRetriesTried == 3
\* rate_limit_per_minute of the modelled configuration
RateLimit == 2
\* concurrent callers of _respect_rate_limit
NumThreads == 2
\* calls each concurrent caller makes
MaxThreadCalls == 2

\* listings the upstream returns per page (config.per_page, 1000 in the code)
PerPage == 2
\* largest upstream listing id
MaxId == 2
\* listings fetched in one behaviour
MaxFetched == 3
\* errors counted in one behaviour
MaxErrors == 2
\* pages the upstream answers in one behaviour
MaxApiCalls == 2
\* max_properties of the configuration handed to the scraper
ConfiguredMaxProperties == 2
\* scrape_all_properties_async(max_pages, batch_size, max_empty_batches)
MaxPages == 3
PageBatchSize == 2
MaxEmptyBatches == 2
\* HighPerformancePropertyScraper.max_retries
FetchRetries == 2
\* pages' worth of collected properties above which the generator flushes
FlushAbove == 1
\* rows of the properties table when run_multilingual_batch starts
MaxBatchRows == 3
\* largest batch_size run_multilingual_batch is called with
MaxBatchSize == 2
\* passes of the batch loop that fit into the 7 days of created_at that
\* get_properties_needing_translation looks back
RecentPasses == 6
\* largest max_concurrent_requests a scraper is constructed with
MaxConcurrent == 2
\* pages requested from an upstream that keeps returning the same page
MaxRepeatedPages == 5
\* days over which ingestion runs and cleanups are followed
MaxRetentionDay == 48

\* amounts by which the clock advances between calls
TickSteps == {20, 60}

\* the rolling window of the rate limiter, seconds
Window == 60

----------------------------------------------------------------------------
(* Helpers *)

RECURSIVE Pow2(_)
Pow2(n) == IF n = 0 THEN 1 ELSE 2 * Pow2(n - 1)

\* the timestamps of rt still younger than one minute at time t
Evict(rt, t) == SelectSeq(rt, LAMBDA x : t - x < Window)

\* time.sleep() the rate limiter asks for at time t with the evicted list kept
SleepTime(kept, t) ==
    IF Len(kept) >= cfg.rate_limit_per_minute
    THEN LET s == Window - (t - kept[1]) IN IF s > 0 THEN s ELSE 0
    ELSE 0

\* BaseScraper._respect_rate_limit called at time t: the new request_times
\* and the clock value when the call returns
RespectRateLimit(rt, t) ==
    LET kept == Evict(rt, t)
    IN  [request_times |-> Append(kept, t),
         returns_at    |-> t + SleepTime(kept, t)]

\* ScrapingConfig.validate, the numeric checks on the values modelled
Validate(c) ==
    /\ c.delay_between_requests >= 0
    /\ c.max_retries >= 1
    /\ c.rate_limit_per_minute > 0

Configs ==
    { c \in [max_retries : 1..MaxRetriesTried,
             delay_between_requests : 0..1,
             rate_limit_per_minute : {RateLimit},
             enable_owner_priority : BOOLEAN] : Validate(c) }

ZeroStats ==
    [total_fetched |-> 0, new_properties |-> 0, duplicates_skipped |-> 0,
     agency_discarded |-> 0, owner_prioritized |-> 0, errors |-> 0, api_calls |-> 0]

IdleReq == [attempt |-> 0, attempts_made |-> 0, waits |-> <<>>, result |-> "none"]

IdleRun == [pc |-> "idle", page |-> 1, consecutive_empty_pages |-> 0, properties_processed |-> 0,
            requested |-> <<>>]

\* the pipeline before the first scrape(): an empty table
PipeIdle ==
    /\ store = <<>>
    /\ seen_property_ids = {}
    /\ run = IdleRun
    /\ page_in = <<>>

\* no _calculate_address_similarity call made
IdleAddr == [addr1 |-> <<>>, addr2 |-> <<>>, done |-> FALSE,
             norm1 |-> <<>>, norm2 |-> <<>>, similar |-> FALSE]

\* no find_duplicates call made
\* no process_property call made
IdleNorm == [raw |-> [id |-> 0], done |-> FALSE, property_data |-> [external_id |-> 0]]

DedupIdle ==
    /\ cand = [external_id |-> 0]
    /\ fd = [duplicates |-> <<>>, consulted |-> <<>>, error |-> FALSE, replace |-> FALSE,
             coordinate_matches |-> <<>>]
    /\ addr = IdleAddr
    /\ norm = IdleNorm

\* no DatabaseService call made, empty related tables
\* the tables DatabaseService writes, empty: properties, the three tables
\* of dependent rows, and the parameter definitions (by external_id)
EmptyTables == [properties |-> <<>>, images |-> <<>>, parameters |-> <<>>,
                prices |-> <<>>, parameter |-> {}]

\* no DatabaseService method has been called
NoOp == [name |-> "none"]

DbIdle ==
    /\ related = EmptyTables
    /\ op = NoOp

\* HighPerformancePropertyScraper after __init__, scrape_all_properties_async
\* not yet called
IdleHp ==
    [pc |-> "idle", shutdown_requested |-> FALSE, page |-> 1, empty_batches |-> 0,
     batch_pages |-> {}, attempt |-> <<>>, result |-> <<>>, all_properties |-> <<>>,
     written |-> <<>>, error_count |-> 0]

\* no scraper constructed
IdleBuilt == [done |-> FALSE]

\* no property handed to the multilingual worker
IdleMl == [pc |-> "none"]

\* run_multilingual_batch not called
IdleMb == [pc |-> "none"]

\* no table followed over the days
IdleRet == [day |-> 0]

ExtIdle ==
    /\ built = IdleBuilt
    /\ ml = IdleMl
    /\ mb = IdleMb
    /\ ret = IdleRet

IdleThread == [pc |-> "idle", now |-> 0, kept |-> <<>>, wake |-> 0, calls |-> 0]

----------------------------------------------------------------------------
(* make_request, one iteration of its retry loop per step *)

\* the exception the statement `raise NetworkError(...)` produces: the name
\* NetworkError is bound nowhere in the repository, so evaluating it raises
\* NameError
RaiseNetworkError == "NameError"

\* outcome: "ok" the response is returned, "request_exception" a
\* requests.exceptions.RequestException, "other_exception" any other error
MakeRequestAttempt(outcome) ==
    LET cur  == IF req.result = "none" THEN req ELSE IdleReq
        rl   == RespectRateLimit(request_times, now)
        last == cur.attempt >= cfg.max_retries - 1
        wait == Pow2(cur.attempt) * cfg.delay_between_requests
        made == cur.attempts_made + 1
    IN  /\ Len(sent) < MaxCalls
        /\ rl.returns_at <= MaxTime
        /\ request_times' = rl.request_times
        /\ sent' = Append(sent, rl.returns_at)
        /\ CASE outcome = "ok" ->
                  /\ now' = rl.returns_at
                  /\ stats' = [stats EXCEPT !.api_calls = @ + 1]
                  /\ req' = [cur EXCEPT !.attempts_made = made, !.result = "response"]
             [] outcome = "request_exception" /\ ~last ->
                  /\ rl.returns_at + wait <= MaxTime
                  /\ now' = rl.returns_at + wait
                  /\ stats' = stats
                  /\ req' = [cur EXCEPT !.attempt = @ + 1, !.attempts_made = made,
                                        !.waits = Append(@, wait)]
             [] outcome = "request_exception" /\ last ->
                  /\ now' = rl.returns_at
                  /\ stats' = [stats EXCEPT !.errors = @ + 1]
                  /\ req' = [cur EXCEPT !.attempts_made = made, !.result = RaiseNetworkError]
             [] OTHER ->
                  /\ now' = rl.returns_at
                  /\ stats' = [stats EXCEPT !.errors = @ + 1]
                  /\ req' = [cur EXCEPT !.attempts_made = made, !.result = "RuntimeError"]
        /\ UNCHANGED <<cfg, thr, admitted, pipevars, dedupvars, dbvars, hp, extvars>>

MakeRequestStep == \E outcome \in {"ok", "request_exception", "other_exception"} :
                       MakeRequestAttempt(outcome)

\* time passes between two calls
Tick == \E d \in TickSteps :
            /\ now + d <= MaxTime
            /\ now' = now + d
            /\ UNCHANGED <<cfg, request_times, sent, req, stats, thr, admitted, pipevars, dedupvars, dbvars, hp, extvars>>

InitReq ==
    /\ cfg \in { c \in Configs : c.enable_owner_priority }
    /\ now = 0
    /\ request_times = <<>>
    /\ sent = <<>>
    /\ req = IdleReq
    /\ stats = ZeroStats
    /\ thr = [t \in 1..NumThreads |-> IdleThread]
    /\ admitted = <<>>
    /\ PipeIdle
    /\ DedupIdle
    /\ DbIdle
    /\ hp = IdleHp
    /\ ExtIdle

NextReq == MakeRequestStep \/ Tick

SpecReq == InitReq /\ [][NextReq]_vars

----------------------------------------------------------------------------
(* _respect_rate_limit under concurrent callers: the statements of the     *)
(* method are separate steps, the object carries no lock                   *)

\* now = time.time()
RL_ReadClock(t) ==
    /\ thr[t].pc = "idle"
    /\ thr[t].calls < MaxThreadCalls
    /\ thr' = [thr EXCEPT ![t].pc = "filter", ![t].now = now, ![t].calls = @ + 1]
    /\ UNCHANGED <<cfg, now, request_times, sent, req, stats, admitted, pipevars, dedupvars, dbvars, hp, extvars>>

\* the list comprehension reads self.request_times ...
RL_Filter(t) ==
    /\ thr[t].pc = "filter"
    /\ thr' = [thr EXCEPT ![t].pc = "store", ![t].kept = Evict(request_times, thr[t].now)]
    /\ UNCHANGED <<cfg, now, request_times, sent, req, stats, admitted, pipevars, dedupvars, dbvars, hp, extvars>>

\* ... and the assignment rebinds self.request_times to the new list
RL_Store(t) ==
    /\ thr[t].pc = "store"
    /\ request_times' = thr[t].kept
    /\ thr' = [thr EXCEPT ![t].pc = "check", ![t].kept = <<>>]
    /\ UNCHANGED <<cfg, now, sent, req, stats, admitted, pipevars, dedupvars, dbvars, hp, extvars>>

\* the capacity test; time.sleep(sleep_time) starts when it is positive
RL_Check(t) ==
    /\ thr[t].pc = "check"
    /\ LET s == SleepTime(request_times, thr[t].now)
       IN  thr' = [thr EXCEPT ![t].pc = IF s > 0 THEN "sleep" ELSE "append",
                              ![t].wake = IF s > 0 THEN now + s ELSE 0]
    /\ UNCHANGED <<cfg, now, request_times, sent, req, stats, admitted, pipevars, dedupvars, dbvars, hp, extvars>>

\* time.sleep returns
RL_Wake(t) ==
    /\ thr[t].pc = "sleep"
    /\ now >= thr[t].wake
    /\ thr' = [thr EXCEPT ![t].pc = "append", ![t].wake = 0]
    /\ UNCHANGED <<cfg, now, request_times, sent, req, stats, admitted, pipevars, dedupvars, dbvars, hp, extvars>>

\* self.request_times.append(now); the caller then sends its request
RL_Append(t) ==
    /\ thr[t].pc = "append"
    /\ request_times' = Append(request_times, thr[t].now)
    /\ admitted' = Append(admitted, thr[t].now)
    /\ sent' = Append(sent, now)
    /\ thr' = [thr EXCEPT ![t].pc = "idle", ![t].now = 0]
    /\ UNCHANGED <<cfg, now, req, stats, pipevars, dedupvars, dbvars, hp, extvars>>

ThreadStep(t) ==
    \/ RL_ReadClock(t) \/ RL_Filter(t) \/ RL_Store(t)
    \/ RL_Check(t) \/ RL_Wake(t) \/ RL_Append(t)

\* the default retry settings; only rate_limit_per_minute is read here
InitConc ==
    /\ cfg = [max_retries |-> 3, delay_between_requests |-> 1,
              rate_limit_per_minute |-> RateLimit, enable_owner_priority |-> TRUE]
    /\ now = 0
    /\ request_times = <<>>
    /\ sent = <<>>
    /\ req = IdleReq
    /\ stats = ZeroStats
    /\ thr = [t \in 1..NumThreads |-> IdleThread]
    /\ admitted = <<>>
    /\ PipeIdle
    /\ DedupIdle
    /\ DbIdle
    /\ hp = IdleHp
    /\ ExtIdle

NextConc == (\E t \in 1..NumThreads : ThreadStep(t)) \/ Tick

SpecConc == InitConc /\ [][NextConc]_vars

----------------------------------------------------------------------------
(* DeduplicationService.  Coordinates are integers in units of 1e-5 degree, *)
(* an address is a sequence of characters, a row's id is its position in   *)
(* the table.                                                              *)

\* SQL NULL / Python None in a numeric column
Null == -1000000

Source == "myhome.ge"

\* coordinate_tolerance = 0.0001 degree, in units of 1e-5 degree
CoordinateTolerance == 10

\* similarity_threshold = 0.85, in percent
SimilarityThresholdPct == 85

Abs(x) == IF x < 0 THEN 0 - x ELSE x

UpperCase == <<"A", "B", "C", "D", "E", "F", "G", "H", "I", "J", "K", "L", "M",
               "N", "O", "P", "Q", "R", "S", "T", "U", "V", "W", "X", "Y", "Z">>
LowerCase == <<"a", "b", "c", "d", "e", "f", "g", "h", "i", "j", "k", "l", "m",
               "n", "o", "p", "q", "r", "s", "t", "u", "v", "w", "x", "y", "z">>

\* str.lower on one character
Lower(c) ==
    IF \E i \in 1..26 : UpperCase[i] = c
    THEN LowerCase[CHOOSE i \in 1..26 : UpperCase[i] = c]
    ELSE c

Whitespace == {" ", "\t", "\n"}
Punctuation == {".", ",", ";", ":", "!", "?", "-"}

RECURSIVE LStrip(_)
LStrip(s) == IF s # <<>> /\ s[1] \in Whitespace THEN LStrip(Tail(s)) ELSE s

RECURSIVE RStrip(_)
RStrip(s) ==
    IF s # <<>> /\ s[Len(s)] \in Whitespace THEN RStrip(SubSeq(s, 1, Len(s) - 1)) ELSE s

\* re.sub(r'\s+', ' ', s)
RECURSIVE CollapseWhitespace(_)
CollapseWhitespace(s) ==
    IF s = <<>> THEN <<>>
    ELSE IF s[1] \in Whitespace THEN <<" ">> \o CollapseWhitespace(LStrip(s))
    ELSE <<s[1]>> \o CollapseWhitespace(Tail(s))

IsPrefix(p, s) == Len(p) <= Len(s) /\ SubSeq(s, 1, Len(p)) = p

\* str.replace(old, new): every non-overlapping occurrence, left to right
RECURSIVE ReplaceAll(_, _, _)
ReplaceAll(s, old, new) ==
    IF s = <<>> THEN <<>>
    ELSE IF IsPrefix(old, s)
         THEN new \o ReplaceAll(SubSeq(s, Len(old) + 1, Len(s)), old, new)
         ELSE <<s[1]>> \o ReplaceAll(Tail(s), old, new)

\* the replacements dict, in its insertion order; cy_* are the Cyrillic
\* letters of the fourth entry
Replacements ==
    << << <<"s","t","r","e","e","t">>, <<"s","t","r">> >>,
       << <<"a","v","e","n","u","e">>, <<"a","v","e">> >>,
       << <<"b","o","u","l","e","v","a","r","d">>, <<"b","l","v","d">> >>,
       << <<"cy_k","cy_v","cy_a","cy_r","cy_t","cy_i","cy_r","cy_a">>, <<"cy_k","cy_v">> >>,
       << <<"a","p","a","r","t","m","e","n","t">>, <<"a","p","t">> >> >>

RECURSIVE ApplyReplacements(_, _)
ApplyReplacements(s, k) ==
    IF k > Len(Replacements) THEN s
    ELSE ApplyReplacements(ReplaceAll(s, Replacements[k][1], Replacements[k][2]), k + 1)

\* _normalize_address without the lower() call
NormalizeAddressKeepCase(address) ==
    LET stripped  == RStrip(LStrip(address))
        collapsed == CollapseWhitespace(stripped)
        nopunct   == SelectSeq(collapsed, LAMBDA c : c \notin Punctuation)
    IN  ApplyReplacements(nopunct, 1)

\* DeduplicationService._normalize_address
NormalizeAddress(address) ==
    LET lowered   == RStrip(LStrip([i \in 1..Len(address) |-> Lower(address[i])]))
        collapsed == CollapseWhitespace(lowered)
        nopunct   == SelectSeq(collapsed, LAMBDA c : c \notin Punctuation)
    IN  ApplyReplacements(nopunct, 1)

\* length of the common run of a from i and b from j
RECURSIVE MatchLen(_, _, _, _)
MatchLen(a, b, i, j) ==
    IF i > Len(a) \/ j > Len(b) \/ a[i] # b[j] THEN 0
    ELSE 1 + MatchLen(a, b, i + 1, j + 1)

\* SequenceMatcher.find_longest_match: the longest common block, of those
\* the one starting earliest in a, of those the one starting earliest in b
LongestMatch(a, b) ==
    LET P == (1..Len(a)) \X (1..Len(b))
        best == CHOOSE p \in P : \A q \in P :
                   LET kp == MatchLen(a, b, p[1], p[2])
                       kq == MatchLen(a, b, q[1], q[2])
                   IN  \/ kp > kq
                       \/ kp = kq /\ p[1] < q[1]
                       \/ kp = kq /\ p[1] = q[1] /\ p[2] <= q[2]
    IN  [i |-> best[1], j |-> best[2], size |-> MatchLen(a, b, best[1], best[2])]

\* sum of the sizes of SequenceMatcher.get_matching_blocks
RECURSIVE MatchingChars(_, _)
MatchingChars(a, b) ==
    IF a = <<>> \/ b = <<>> THEN 0
    ELSE LET m == LongestMatch(a, b)
         IN  IF m.size = 0 THEN 0
             ELSE m.size
                  + MatchingChars(SubSeq(a, 1, m.i - 1), SubSeq(b, 1, m.j - 1))
                  + MatchingChars(SubSeq(a, m.i + m.size, Len(a)),
                                  SubSeq(b, m.j + m.size, Len(b)))

\* DeduplicationService._calculate_address_similarity(addr1, addr2) >=
\* similarity_threshold; ratio() is 2*M/T, and 1.0 when both strings are empty
AddressSimilar(addr1, addr2) ==
    IF addr1 = <<>> \/ addr2 = <<>> THEN FALSE
    ELSE LET n1 == NormalizeAddress(addr1)
             n2 == NormalizeAddress(addr2)
             T  == Len(n1) + Len(n2)
         IN  IF T = 0 THEN TRUE
             ELSE 200 * MatchingChars(n1, n2) >= SimilarityThresholdPct * T

\* the positions of the rows of db, in table order: what a query ranges over
Rows(db) == [i \in 1..Len(db) |-> i]

InSeq(x, s) == \E i \in 1..Len(s) : s[i] = x

\* DeduplicationService._find_exact_match: .first() of the rows with this
\* external id and source, 0 when there is none
FindExactMatch(db, external_id) ==
    LET m == SelectSeq(Rows(db), LAMBDA i :
                 db[i].external_id = external_id /\ db[i].source = Source)
    IN  IF m = <<>> THEN 0 ELSE m[1]

\* _find_coordinate_matches that is content with one axis within tolerance
FindCoordinateMatchesEitherAxis(db, lat, lng) ==
    SelectSeq(Rows(db), LAMBDA i :
        /\ db[i].latitude # Null
        /\ db[i].longitude # Null
        /\ \/ Abs(db[i].latitude - lat) < CoordinateTolerance
           \/ Abs(db[i].longitude - lng) < CoordinateTolerance
        /\ db[i].source = Source)

\* DeduplicationService._find_coordinate_matches
FindCoordinateMatches(db, lat, lng) ==
    SelectSeq(Rows(db), LAMBDA i :
        /\ db[i].latitude # Null
        /\ db[i].longitude # Null
        /\ Abs(db[i].latitude - lat) < CoordinateTolerance
        /\ Abs(db[i].longitude - lng) < CoordinateTolerance
        /\ db[i].source = Source)

\* _find_address_matches that forgets the exclude list
FindAddressMatchesNoExclude(db, address, exclude_properties) ==
    SelectSeq([i \in 1..Len(db) |-> i], LAMBDA i :
        /\ db[i].source = Source
        /\ db[i].address # <<>>
        /\ AddressSimilar(address, db[i].address))

\* DeduplicationService._find_address_matches
FindAddressMatches(db, address, exclude_properties) ==
    SelectSeq([i \in 1..Len(db) |-> i], LAMBDA i :
        /\ db[i].source = Source
        /\ ~InSeq(i, exclude_properties)
        /\ db[i].address # <<>>
        /\ AddressSimilar(address, db[i].address))

\* Python truthiness of an optional float
Truthy(x) == x # Null /\ x # 0

\* DeduplicationService.find_duplicates: the duplicates found, the tiers
\* whose query ran and what the geo tier returned; lookup_error: the first query raises, which the method
\* catches and answers with an empty list
FindDuplicates(db, property_data, lookup_error) ==
    LET exact_match == FindExactMatch(db, property_data.external_id)
        geo_run     == Truthy(property_data.latitude) /\ Truthy(property_data.longitude)
        coordinate_matches ==
            IF geo_run
            THEN FindCoordinateMatches(db, property_data.latitude, property_data.longitude)
            ELSE <<>>
        addr_run    == property_data.address # <<>>
        address_matches ==
            IF addr_run
            THEN FindAddressMatches(db, property_data.address, coordinate_matches)
            ELSE <<>>
    IN  IF lookup_error
        THEN [duplicates |-> <<>>, consulted |-> <<"exact">>, error |-> TRUE,
              coordinate_matches |-> <<>>]
        ELSE IF exact_match # 0
        THEN [duplicates |-> <<exact_match>>, consulted |-> <<"exact">>, error |-> FALSE,
              coordinate_matches |-> <<>>]
        ELSE [duplicates |-> coordinate_matches \o address_matches,
              consulted  |-> <<"exact">> \o (IF geo_run THEN <<"geo">> ELSE <<>>)
                                         \o (IF addr_run THEN <<"address">> ELSE <<>>),
              error      |-> FALSE,
              coordinate_matches |-> coordinate_matches]

\* DeduplicationService.is_owner_listing
IsOwnerListing(property_data) == property_data.user_type = "owner"

\* DeduplicationService.should_replace_duplicate
ShouldReplaceDuplicate(new_property, existing_property) ==
    IF ~cfg.enable_owner_priority THEN FALSE
    ELSE LET new_is_owner      == new_property.user_type = "owner"
             existing_is_owner == existing_property.user_type = "owner"
         IN  IF new_is_owner /\ ~existing_is_owner THEN TRUE
             ELSE IF new_is_owner = existing_is_owner THEN FALSE
             ELSE FALSE

----------------------------------------------------------------------------
(* MyHomeAdvancedScraper: scrape(), _scrape_properties and the batch path  *)

\* max_consecutive_empty
MaxConsecutiveEmpty == 3

\* BATCH_SIZE of _process_properties_batch; the code sets it to per_page's value
BatchSize == PerPage

\* where a listing is: coordinates (units of 1e-5 degree) and address
Locations ==
    { [lat |-> 4100000, lng |-> 4400000, address |-> <<"a", " ", "1">>],
      [lat |-> 4100200, lng |-> 4400200, address |-> <<"b", " ", "9">>] }

\* a raw listing without an id (id 0 stands for a missing id)
NoIdListing ==
    [id |-> 0, user_type |-> "individual", lat |-> 4100000, lng |-> 4400000,
     address |-> <<"a", " ", "1">>]

\* the raw listings the upstream API can return
RawListings ==
    { [id |-> i, user_type |-> u, lat |-> l.lat, lng |-> l.lng, address |-> l.address] :
        i \in 1..MaxId, u \in {"individual", "agency"}, l \in Locations }
    \cup {NoIdListing}

\* the pages the upstream API can return: up to per_page listings
Pages == UNION { [1..n -> RawListings] : n \in 0..PerPage }

\* DataProcessor._determine_user_type on the user_type.type field
DetermineUserType(raw) ==
    IF raw.user_type \in {"owner", "individual", "private", "person"} THEN "owner"
    ELSE "agency"

\* a raw coordinate that float() rejects, such as an empty string
BadNumber == -2000000

\* what process_property returns when a step of it raises
NoPropertyData == [none |-> TRUE]

\* DataProcessor._process_property_details: real_estate_type_id (0: the
\* key is missing) to property_type
PropertyTypeOf(raw) ==
    LET property_type_id == IF "real_estate_type_id" \in DOMAIN raw
                            THEN raw.real_estate_type_id ELSE 0
    IN  CASE property_type_id = 1 -> "apartment"
          [] property_type_id = 2 -> "house"
          [] property_type_id = 3 -> "commercial"
          [] OTHER -> "apartment"

\* DataProcessor._process_property_details: deal_type_id (0: the key is
\* missing) to listing_type
ListingTypeOf(raw) ==
    LET deal_type_id == IF "deal_type_id" \in DOMAIN raw THEN raw.deal_type_id ELSE 0
    IN  CASE deal_type_id = 1 -> "sale"
          [] deal_type_id = 2 -> "rent"
          [] OTHER -> "rent"

\* DataProcessor._process_photos: an image is kept when it has a large URL,
\* with the is_main flag and the position it has in the raw list (from 0)
ProcessPhotos(raw) ==
    LET images == IF "images" \in DOMAIN raw THEN raw.images ELSE <<>>
        kept   == SelectSeq([i \in 1..Len(images) |->
                                [large |-> images[i].large,
                                 is_primary |-> images[i].is_main,
                                 order_index |-> i - 1]],
                            LAMBDA image : image.large)
    IN  [i \in 1..Len(kept) |->
            [is_primary |-> kept[i].is_primary, order_index |-> kept[i].order_index]]

\* DataProcessor.process_property: the fields of PropertyData modelled;
\* float() of a coordinate raises when both are given and one is not a
\* number, and the handler returns None
ProcessProperty(raw) ==
    IF raw.lat # Null /\ raw.lng # Null /\ (raw.lat = BadNumber \/ raw.lng = BadNumber)
    THEN NoPropertyData
    ELSE
    [external_id |-> raw.id,
     source      |-> Source,
     user_type   |-> DetermineUserType(raw),
     latitude    |-> IF raw.lat # Null /\ raw.lng # Null THEN raw.lat ELSE Null,
     longitude   |-> IF raw.lat # Null /\ raw.lng # Null THEN raw.lng ELSE Null,
     address     |-> raw.address,
     property_type |-> PropertyTypeOf(raw),
     listing_type  |-> ListingTypeOf(raw),
     images        |-> ProcessPhotos(raw)]

\* Property(**property_data.to_dict())
ToRow(property_data) ==
    [external_id |-> property_data.external_id,
     source      |-> property_data.source,
     user_type   |-> property_data.user_type,
     latitude    |-> property_data.latitude,
     longitude   |-> property_data.longitude,
     address     |-> property_data.address]

\* MyHomeAdvancedScraper._is_owner_listing_from_db: a row is an agency
\* listing only when it has a non-empty agency_name attribute
IsOwnerListingFromDb(db_property) ==
    ~("agency_name" \in DOMAIN db_property /\ db_property.agency_name # "")

\* the filter without the seen-ids test
RECURSIVE NewPropertiesNoSeenTest(_, _, _)
NewPropertiesNoSeenTest(properties, seen, kept) ==
    IF properties = <<>> THEN [new_properties |-> kept, seen |-> seen]
    ELSE LET raw == Head(properties)
         IN  IF raw.id # 0
             THEN NewPropertiesNoSeenTest(Tail(properties), seen \cup {raw.id}, Append(kept, raw))
             ELSE NewPropertiesNoSeenTest(Tail(properties), seen, kept)

\* the filter of _scrape_properties: listings with an id not seen in this
\* run, each id once; returns the listings kept and the ids seen
RECURSIVE NewProperties(_, _, _)
NewProperties(properties, seen, kept) ==
    IF properties = <<>> THEN [new_properties |-> kept, seen |-> seen]
    ELSE LET raw == Head(properties)
         IN  IF raw.id # 0 /\ raw.id \notin seen
             THEN NewProperties(Tail(properties), seen \cup {raw.id}, Append(kept, raw))
             ELSE NewProperties(Tail(properties), seen, kept)

\* an existing_dict whose keys never equal the looked-up id
ExistingForNoHit(db, property_id) == 0

\* existing_dict[property_id] of _process_single_batch: the row found by the
\* bulk query for this external id (0: none); a later row replaces an
\* earlier one under the same key
ExistingFor(db, property_id) ==
    LET m == SelectSeq(Rows(db), LAMBDA i : db[i].external_id = property_id)
    IN  IF m = <<>> THEN 0 ELSE m[Len(m)]

\* the loop of _process_single_batch over the raw listings: the session's
\* pending deletions, the valid_properties list and the counters
RECURSIVE CheckBatch(_, _, _)
CheckBatch(db, raw_properties, acc) ==
    IF raw_properties = <<>> THEN acc
    ELSE LET property_data == ProcessProperty(Head(raw_properties))
             existing      == ExistingFor(db, property_data.external_id)
             rest          == Tail(raw_properties)
         IN  IF property_data = NoPropertyData
             THEN CheckBatch(db, rest, acc)
             ELSE IF existing # 0
             THEN IF /\ cfg.enable_owner_priority
                     /\ IsOwnerListing(property_data)
                     /\ ~IsOwnerListingFromDb(db[existing])
                  THEN CheckBatch(db, rest,
                          [acc EXCEPT !.deleted = @ \cup {existing},
                                      !.valid = Append(@, property_data),
                                      !.st.agency_discarded = @ + 1])
                  ELSE CheckBatch(db, rest, [acc EXCEPT !.st.duplicates_skipped = @ + 1])
             ELSE CheckBatch(db, rest, [acc EXCEPT !.valid = Append(@, property_data)])

\* how saving one record fails: "ctor" before db.add (building the row
\* raises), "flush" in db.flush (a database error, the session's transaction
\* becomes unusable until rollback), "related" while the related rows are
\* saved after the flush (the property row stays in the session)
FailKinds == {"ctor", "flush", "related"}

NoFail == [at |-> 0, kind |-> "none"]

\* _ultra_fast_bulk_save over valid_properties from position k on
RECURSIVE UltraFastBulkSave(_, _, _, _)
UltraFastBulkSave(properties, k, fail, acc) ==
    IF k > Len(properties) THEN acc
    ELSE LET row  == ToRow(properties[k])
             kind == IF acc.poisoned THEN "flush"
                     ELSE IF fail.at = k /\ fail.kind \in FailKinds THEN fail.kind ELSE "none"
             nxt  ==
                CASE kind = "none" ->
                       [acc EXCEPT !.added = Append(@, row),
                                   !.saved_count = @ + 1,
                                   !.st.new_properties = @ + 1]
                  [] kind = "ctor" ->
                       [acc EXCEPT !.st.errors = @ + 1]
                  [] kind = "flush" ->
                       [acc EXCEPT !.poisoned = TRUE, !.st.errors = @ + 1]
                  [] OTHER ->
                       [acc EXCEPT !.added = Append(@, row), !.st.errors = @ + 1]
         IN  UltraFastBulkSave(properties, k + 1, fail, nxt)

CountOwners(properties, n) ==
    Cardinality({ i \in 1..n : IsOwnerListing(properties[i]) })

\* the rows of db without the positions in deleted
Without(db, deleted) == SelectSeq([i \in 1..Len(db) |-> IF i \in deleted THEN [gone |-> TRUE] ELSE db[i]],
                                  LAMBDA r : "gone" \notin DOMAIN r)

\* _process_single_batch followed by the commit or rollback of
\* _process_properties_batch: the table and the counters after the batch,
\* whether it was committed, and the failure that happened in it ("commit":
\* db.commit() of _process_single_batch raises after every record was saved)
ProcessSingleBatch(db, raw_properties, st, fail) ==
    LET checked == CheckBatch(db, raw_properties, [deleted |-> {}, valid |-> <<>>, st |-> st])
        saved   == UltraFastBulkSave(checked.valid, 1, fail,
                       [added |-> <<>>, poisoned |-> FALSE, saved_count |-> 0, st |-> checked.st])
        st2     == [saved.st EXCEPT !.owner_prioritized =
                        @ + CountOwners(checked.valid, saved.saved_count)]
        commit_raises == fail.kind = "commit" /\ fail.at \in 1..Len(raw_properties)
        hit     == IF commit_raises THEN "commit"
                   ELSE IF fail.kind \in FailKinds /\ fail.at \in 1..Len(checked.valid)
                        THEN fail.kind ELSE "none"
    IN  IF saved.poisoned \/ commit_raises
        THEN [db |-> db, st |-> st2, committed |-> FALSE, hit |-> hit]
        ELSE [db |-> Without(db, checked.deleted) \o saved.added, st |-> st2,
              committed |-> TRUE, hit |-> hit]

\* _process_properties_batch: the batches of BATCH_SIZE listings in turn
RECURSIVE ProcessPropertiesBatch(_, _, _, _)
ProcessPropertiesBatch(db, raw_properties, st, fail) ==
    IF raw_properties = <<>> THEN [db |-> db, st |-> st, rolled_back |-> FALSE, hit |-> "none"]
    ELSE LET n     == IF Len(raw_properties) < BatchSize THEN Len(raw_properties) ELSE BatchSize
             batch == SubSeq(raw_properties, 1, n)
             r     == ProcessSingleBatch(db, batch, st, fail)
             rest  == ProcessPropertiesBatch(r.db, SubSeq(raw_properties, n + 1, Len(raw_properties)),
                                             r.st, [fail EXCEPT !.at = @ - n])
         IN  [rest EXCEPT !.rolled_back = @ \/ ~r.committed,
                          !.hit = IF r.hit # "none" THEN r.hit ELSE @]

\* scrape() up to the loop of _scrape_properties
ScrapeStart ==
    /\ run.pc = "idle"
    /\ seen_property_ids' = {}
    /\ run' = [pc |-> "running", page |-> 1, consecutive_empty_pages |-> 0,
               properties_processed |-> 0, requested |-> <<>>]
    /\ UNCHANGED <<cfg, stats, store, page_in, reqvars, dedupvars, dbvars, hp, extvars>>

\* an empty or failed page after which the same page is fetched again
AfterEmptyPageSamePage ==
    LET c == run.consecutive_empty_pages + 1
    IN  IF c >= MaxConsecutiveEmpty
        THEN [run EXCEPT !.pc = "idle", !.consecutive_empty_pages = c]
        ELSE [run EXCEPT !.consecutive_empty_pages = c]

\* after an empty or failed page
AfterEmptyPage ==
    LET c == run.consecutive_empty_pages + 1
    IN  IF c >= MaxConsecutiveEmpty
        THEN [run EXCEPT !.pc = "idle", !.consecutive_empty_pages = c]
        ELSE [run EXCEPT !.page = @ + 1, !.consecutive_empty_pages = c]

\* one iteration of the loop whose _fetch_properties_page returns None:
\* "request_failed" make_request raised (counted there and in the handler),
\* "no_result" the response carries no listings
ScrapeEmptyPage(fetched) ==
    /\ run.pc = "running"
    /\ fetched = "request_failed" => stats.errors + 2 <= MaxErrors
    /\ fetched = "no_result" => stats.api_calls < MaxApiCalls
    /\ stats' = IF fetched = "request_failed"
                THEN [stats EXCEPT !.errors = @ + 2]
                ELSE [stats EXCEPT !.api_calls = @ + 1]
    /\ run' = [AfterEmptyPage EXCEPT !.requested = Append(@, run.page)]
    /\ UNCHANGED <<cfg, store, seen_property_ids, page_in, reqvars, dedupvars, dbvars, hp, extvars>>

\* the last-page test with a threshold of a tenth of per_page
LastPageTenPercent(properties) == 10 * Len(properties) < PerPage

\* the page has fewer listings than requested
LastPage(properties) == Len(properties) < PerPage

\* the counter after a page with listings, were it not set to zero first
PagesWithoutNewCarried(new_properties) ==
    run.consecutive_empty_pages + (IF new_properties = <<>> THEN 1 ELSE 0)

\* consecutive_empty_pages after a page with listings: set to zero, then
\* raised by one when none of the listings is new
PagesWithoutNew(new_properties) == IF new_properties = <<>> THEN 1 ELSE 0

\* after a page with listings that moves on without advancing the page
AfterListingsPageSamePage(properties, new_properties) ==
    LET c == PagesWithoutNew(new_properties)
    IN  [run EXCEPT !.pc = IF c >= MaxConsecutiveEmpty \/ LastPage(properties)
                           THEN "idle" ELSE "running",
                    !.consecutive_empty_pages = c,
                    !.properties_processed = @ + Len(properties)]

\* after a page with listings: the counter of pages without new listings
\* is set to zero and raised when no listing of the page is new
AfterListingsPage(properties, new_properties) ==
    LET c == PagesWithoutNew(new_properties)
    IN  [run EXCEPT !.pc = IF c >= MaxConsecutiveEmpty \/ LastPage(properties)
                           THEN "idle" ELSE "running",
                    !.consecutive_empty_pages = c,
                    !.page = IF c >= MaxConsecutiveEmpty THEN @ ELSE @ + 1,
                    !.properties_processed = @ + Len(properties)]

\* one iteration of the loop on a page with listings
ScrapePage(properties, fail) ==
    \E f \in {NewProperties(properties, seen_property_ids, <<>>)} :
    \E st1 \in {[stats EXCEPT !.api_calls = @ + 1,
                             !.total_fetched = @ + Len(properties)]} :
        /\ run.pc = "running"
        /\ properties # <<>>
        /\ stats.api_calls < MaxApiCalls
        /\ stats.total_fetched + Len(properties) <= MaxFetched
        /\ \E r \in {IF f.new_properties # <<>>
                     THEN ProcessPropertiesBatch(store, f.new_properties, st1, fail)
                     ELSE [db |-> store, st |-> st1, rolled_back |-> FALSE,
                           hit |-> "none"]} :
              /\ fail = NoFail \/ r.hit # "none"
              /\ r.st.errors <= MaxErrors
              /\ seen_property_ids' = f.seen
              /\ store' = r.db
              /\ stats' = r.st
              /\ page_in' = [listings |-> properties,
                             repeat |-> page_in # <<>> /\ page_in.listings = properties,
                             hit |-> r.hit,
                             rolled_back |-> r.rolled_back]
        /\ run' = [AfterListingsPage(properties, f.new_properties)
                      EXCEPT !.requested = Append(@, run.page)]
        /\ UNCHANGED <<cfg, reqvars, dedupvars, dbvars, hp, extvars>>

Fails == {NoFail} \cup [at : 1..PerPage, kind : FailKinds] \cup {[at |-> 1, kind |-> "commit"]}

Init ==
    /\ cfg \in { c \in Configs : c.max_retries = 3 /\ c.delay_between_requests = 1 }
    /\ now = 0
    /\ request_times = <<>>
    /\ sent = <<>>
    /\ req = IdleReq
    /\ stats = ZeroStats
    /\ thr = [t \in 1..NumThreads |-> IdleThread]
    /\ admitted = <<>>
    /\ PipeIdle
    /\ DedupIdle
    /\ DbIdle
    /\ hp = IdleHp
    /\ ExtIdle

Next ==
    \/ ScrapeStart
    \/ \E fetched \in {"request_failed", "no_result"} : ScrapeEmptyPage(fetched)
    \/ \E properties \in Pages, fail \in Fails : ScrapePage(properties, fail)

Spec == Init /\ [][Next]_vars

\* one iteration of the loop against an upstream that answers every page
\* number with the same full page of listings
RepeatedDataPage(properties) ==
    \E f \in {NewProperties(properties, seen_property_ids, <<>>)} :
    \E st1 \in {[stats EXCEPT !.api_calls = @ + 1,
                             !.total_fetched = @ + Len(properties)]} :
        /\ run.pc = "running"
        /\ Len(properties) = PerPage
        /\ page_in # <<>> => properties = page_in.listings
        /\ Len(run.requested) < MaxRepeatedPages
        /\ \E r \in {IF f.new_properties # <<>>
                     THEN ProcessPropertiesBatch(store, f.new_properties, st1, NoFail)
                     ELSE [db |-> store, st |-> st1, rolled_back |-> FALSE,
                           hit |-> "none"]} :
              /\ seen_property_ids' = f.seen
              /\ store' = r.db
              /\ stats' = r.st
              /\ page_in' = [listings |-> properties,
                             repeat |-> page_in # <<>> /\ page_in.listings = properties,
                             hit |-> r.hit,
                             rolled_back |-> r.rolled_back]
        /\ run' = [AfterListingsPage(properties, f.new_properties)
                      EXCEPT !.requested = Append(@, run.page)]
        /\ UNCHANGED <<cfg, reqvars, dedupvars, dbvars, hp, extvars>>

NextRepeat ==
    \/ ScrapeStart
    \/ \E properties \in Pages : RepeatedDataPage(properties)

\* the pipeline against an upstream that repeats one full page
SpecRepeat == Init /\ [][NextRepeat]_vars

----------------------------------------------------------------------------
(* find_duplicates and should_replace_duplicate applied to a candidate and *)
(* a table drawn from bounded sets                                         *)

\* rows of the tables tried
MaxDedupRows == 2
\* external ids tried
MaxDedupId == 3

\* properties save_property may create
MaxPropertyId == 2

\* rows of the properties table when cleanup starts
MaxCleanupRows == 3

\* a place (41.0000, 44.0000), one 5e-5 degree away with the same address
\* written differently, a far one (41.0020, 44.0020) with the same address,
\* the same place under another address, one within tolerance in latitude
\* only, and a listing without coordinates and address
DedupLocations ==
    { [lat |-> 4100000, lng |-> 4400000, address |-> <<"a", " ", "1">>],
      [lat |-> 4100005, lng |-> 4400005, address |-> <<"A", " ", "1", ".">>],
      [lat |-> 4100200, lng |-> 4400200, address |-> <<"a", " ", "1">>],
      [lat |-> 4100000, lng |-> 4400000, address |-> <<"b", " ", "9">>],
      [lat |-> 4100005, lng |-> 4400200, address |-> <<"b", " ", "9">>],
      [lat |-> Null, lng |-> Null, address |-> <<>>] }

DedupCandidates ==
    { ProcessProperty([id |-> i, user_type |-> u, lat |-> l.lat, lng |-> l.lng,
                       address |-> l.address]) :
        i \in 1..MaxDedupId, u \in {"individual", "agency"}, l \in DedupLocations }

\* tables whose rows carry distinct external ids
DedupStores ==
    { db \in UNION { [1..n -> { ToRow(c) : c \in DedupCandidates }] : n \in 0..MaxDedupRows } :
        \A i, j \in 1..Len(db) : i # j => db[i].external_id # db[j].external_id }

InitDedup ==
    /\ cfg \in { c \in Configs : c.max_retries = 3 /\ c.delay_between_requests = 1 }
    /\ now = 0
    /\ request_times = <<>>
    /\ sent = <<>>
    /\ req = IdleReq
    /\ stats = ZeroStats
    /\ thr = [t \in 1..NumThreads |-> IdleThread]
    /\ admitted = <<>>
    /\ store \in DedupStores
    /\ seen_property_ids = {}
    /\ run = IdleRun
    /\ page_in = <<>>
    /\ cand \in DedupCandidates
    /\ fd = [duplicates |-> <<>>, consulted |-> <<>>, error |-> FALSE, replace |-> FALSE,
             coordinate_matches |-> <<>>]
    /\ addr = IdleAddr
    /\ norm = IdleNorm
    /\ DbIdle
    /\ hp = IdleHp
    /\ ExtIdle

\* steps 1 and 2 of _process_single_property: the duplicates of the
\* candidate and the decision on the first of them
FindDuplicatesCall(lookup_error) ==
    /\ fd.consulted = <<>>
    /\ LET r == FindDuplicates(store, cand, lookup_error)
       IN  fd' = [duplicates |-> r.duplicates, consulted |-> r.consulted, error |-> r.error,
                  coordinate_matches |-> r.coordinate_matches,
                  replace |-> r.duplicates # <<>>
                              /\ ShouldReplaceDuplicate(cand, store[r.duplicates[1]])]
    /\ UNCHANGED <<cfg, stats, pipevars, reqvars, dbvars, cand, addr, norm, hp, extvars>>

NextDedup == \E lookup_error \in BOOLEAN : FindDuplicatesCall(lookup_error)

SpecDedup == InitDedup /\ [][NextDedup]_vars

\* _process_single_property as a whole, for a candidate that process_property
\* has produced: the duplicates, the decision on the first of them, the
\* enhancement (a no-op) and the call of _save_property_to_database, a
\* method no class defines, so that reaching step 4 raises AttributeError
\* before anything is committed
ProcessSingleProperty(lookup_error) ==
    LET r == FindDuplicates(store, cand, lookup_error)
        replace == r.duplicates # <<>>
                   /\ ShouldReplaceDuplicate(cand, store[r.duplicates[1]])
        skip == r.duplicates # <<>> /\ ~replace
    IN  /\ fd.consulted = <<>>
        /\ fd' = [duplicates |-> r.duplicates, consulted |-> r.consulted, error |-> r.error,
                  coordinate_matches |-> r.coordinate_matches,
                  replace |-> replace,
                  reached |-> IF skip THEN "return" ELSE "save",
                  raised |-> IF skip THEN "none" ELSE "AttributeError"]
        /\ stats' = IF r.duplicates = <<>> THEN stats
                    ELSE IF replace THEN [stats EXCEPT !.agency_discarded = @ + 1]
                    ELSE [stats EXCEPT !.duplicates_skipped = @ + 1]
        /\ UNCHANGED <<cfg, pipevars, reqvars, dbvars, cand, addr, norm, hp, extvars>>

NextProcess == \E lookup_error \in BOOLEAN : ProcessSingleProperty(lookup_error)

SpecProcess == InitDedup /\ [][NextProcess]_vars

----------------------------------------------------------------------------
(* _calculate_address_similarity applied to two addresses drawn from a set *)

\* 'Kostava St. 12'
AddrKostavaSt ==
    <<"K", "o", "s", "t", "a", "v", "a", " ", "S", "t", ".", " ", "1", "2">>

\* 'kostava st 12'
AddrKostavaPlain ==
    <<"k", "o", "s", "t", "a", "v", "a", " ", "s", "t", " ", "1", "2">>

\* 'Chavchavadze Ave. 45'
AddrChavchavadze ==
    <<"C", "h", "a", "v", "c", "h", "a", "v", "a", "d", "z", "e", " ", "A", "v", "e", ".", " ", "4", "5">>

\* '  KOSTAVA   St, 12 '
AddrKostavaSpaced ==
    <<" ", " ", "K", "O", "S", "T", "A", "V", "A", " ", " ", " ", "S", "t", ",", " ", "1", "2", " ">>

\* 'Kostava Street 12'
AddrKostavaStreet ==
    <<"K", "o", "s", "t", "a", "v", "a", " ", "S", "t", "r", "e", "e", "t", " ", "1", "2">>

\* 'Kostava St. 14'
AddrKostavaOther ==
    <<"K", "o", "s", "t", "a", "v", "a", " ", "S", "t", ".", " ", "1", "4">>

\* ''
AddrEmpty ==
    <<>>

\* 'Rustaveli Avenue 5'
AddrRustaveliAvenue ==
    <<"R", "u", "s", "t", "a", "v", "e", "l", "i", " ", "A", "v", "e", "n", "u", "e", " ", "5">>

\* 'rustaveli ave 5'
AddrRustaveliAve ==
    <<"r", "u", "s", "t", "a", "v", "e", "l", "i", " ", "a", "v", "e", " ", "5">>

\* 'Kostava St - 12'
AddrKostavaDash ==
    <<"K", "o", "s", "t", "a", "v", "a", " ", "S", "t", " ", "-", " ", "1", "2">>

Addresses ==
    { AddrKostavaSt,
      AddrKostavaPlain,
      AddrChavchavadze,
      AddrKostavaSpaced,
      AddrKostavaStreet,
      AddrKostavaOther,
      AddrEmpty,
      AddrRustaveliAvenue,
      AddrRustaveliAve,
      AddrKostavaDash }

InitAddr ==
    /\ cfg \in { c \in Configs : c.max_retries = 3 /\ c.delay_between_requests = 1
                                  /\ c.enable_owner_priority }
    /\ now = 0
    /\ request_times = <<>>
    /\ sent = <<>>
    /\ req = IdleReq
    /\ stats = ZeroStats
    /\ thr = [t \in 1..NumThreads |-> IdleThread]
    /\ admitted = <<>>
    /\ PipeIdle
    /\ cand = [external_id |-> 0]
    /\ fd = [duplicates |-> <<>>, consulted |-> <<>>, error |-> FALSE, replace |-> FALSE,
             coordinate_matches |-> <<>>]
    /\ addr \in { [IdleAddr EXCEPT !.addr1 = a1, !.addr2 = a2] : a1 \in Addresses, a2 \in Addresses }
    /\ norm = IdleNorm
    /\ DbIdle
    /\ hp = IdleHp
    /\ ExtIdle

\* _calculate_address_similarity(addr1, addr2) and the comparison with the
\* threshold made by _find_address_matches; an empty address returns 0.0
\* before anything is normalized
CalculateAddressSimilarity ==
    /\ ~addr.done
    /\ addr' = IF addr.addr1 = <<>> \/ addr.addr2 = <<>>
               THEN [addr EXCEPT !.done = TRUE, !.similar = FALSE]
               ELSE [addr EXCEPT !.done = TRUE,
                                 !.norm1 = NormalizeAddress(addr.addr1),
                                 !.norm2 = NormalizeAddress(addr.addr2),
                                 !.similar = AddressSimilar(addr.addr1, addr.addr2)]
    /\ UNCHANGED <<cfg, stats, pipevars, reqvars, dbvars, cand, fd, norm, hp, extvars>>

NextAddr == CalculateAddressSimilarity

SpecAddr == InitAddr /\ [][NextAddr]_vars

----------------------------------------------------------------------------
(* DataProcessor.process_property applied to a raw listing drawn from a    *)
(* bounded set                                                             *)

\* config.property_types
PropertyTypes ==
    <<"apartment", "house", "commercial", "country_house", "land_plot", "hotel">>

\* config.deal_types
DealTypes ==
    [k \in {1, 2, 3, 4, 7} |->
        CASE k = 1 -> "sale" [] k = 2 -> "rent" [] k = 3 -> "lease"
          [] k = 4 -> "mortgage" [] OTHER -> "daily_rent"]

\* config.coordinate_bounds, in units of 1e-5 degree
CoordinateBounds ==
    [lat_min |-> 4000000, lat_max |-> 4360000, lng_min |-> 3980000, lng_max |-> 4670000]

\* the lat and lng of the raw listings tried: none, a place in Tbilisi,
\* only one of the two, a latitude of 50 degrees, a longitude of 0, and a
\* latitude that is not a number
RawCoordinates ==
    { [lat |-> Null,      lng |-> Null],
      [lat |-> 4171000,   lng |-> 4479000],
      [lat |-> 4171000,   lng |-> Null],
      [lat |-> 5000000,   lng |-> 4479000],
      [lat |-> 4171000,   lng |-> 0],
      [lat |-> BadNumber, lng |-> 4479000] }

\* the images lists tried: none, and one or two images with or without a
\* large URL and the is_main flag
RawImages ==
    { <<>>,
      << [large |-> TRUE, is_main |-> FALSE] >>,
      << [large |-> TRUE, is_main |-> TRUE] >>,
      << [large |-> TRUE, is_main |-> TRUE], [large |-> TRUE, is_main |-> TRUE] >>,
      << [large |-> TRUE, is_main |-> FALSE], [large |-> TRUE, is_main |-> TRUE] >>,
      << [large |-> FALSE, is_main |-> TRUE], [large |-> TRUE, is_main |-> FALSE] >> }

\* the raw listings handed to process_property (0: the key is missing)
NormListings ==
    { [id |-> i, user_type |-> "individual", lat |-> c.lat, lng |-> c.lng,
       address |-> <<"a", " ", "1">>, real_estate_type_id |-> t,
       deal_type_id |-> d, images |-> m] :
        i \in {0, 1}, c \in RawCoordinates, t \in {0, 1, 2, 3, 4, 6, 9},
        d \in {0, 1, 2, 3, 7, 9}, m \in RawImages }

InitNorm ==
    /\ cfg \in { c \in Configs : c.max_retries = 3 /\ c.delay_between_requests = 1
                                  /\ c.enable_owner_priority }
    /\ now = 0
    /\ request_times = <<>>
    /\ sent = <<>>
    /\ req = IdleReq
    /\ stats = ZeroStats
    /\ thr = [t \in 1..NumThreads |-> IdleThread]
    /\ admitted = <<>>
    /\ PipeIdle
    /\ cand = [external_id |-> 0]
    /\ fd = [duplicates |-> <<>>, consulted |-> <<>>, error |-> FALSE, replace |-> FALSE,
             coordinate_matches |-> <<>>]
    /\ addr = IdleAddr
    /\ norm \in { [IdleNorm EXCEPT !.raw = raw] : raw \in NormListings }
    /\ DbIdle
    /\ hp = IdleHp
    /\ ExtIdle

ProcessPropertyCall ==
    /\ ~norm.done
    /\ norm' = [norm EXCEPT !.done = TRUE, !.property_data = ProcessProperty(norm.raw)]
    /\ UNCHANGED <<cfg, stats, pipevars, reqvars, dbvars, cand, fd, addr, hp, extvars>>

NextNorm == ProcessPropertyCall

SpecNorm == InitNorm /\ [][NextNorm]_vars

----------------------------------------------------------------------------
(* DatabaseService.save_property and update_property on PostgreSQL.  A row *)
(* of a dependent table is [property_id, value]; a parameter's value is    *)
(* its external_id.  A statement that fails leaves the transaction         *)
(* aborted: statements sent afterwards fail, and a COMMIT sent afterwards  *)
(* is answered by a rollback without an error.                             *)

\* the title and the dependent lists of the PropertyData records offered
PropertyInputs == {
    [title |-> 1, images |-> <<>>,     parameters |-> <<>>,  prices |-> <<>>],
    [title |-> 1, images |-> <<1>>,    parameters |-> <<1>>, prices |-> <<1>>],
    [title |-> 2, images |-> <<2, 1>>, parameters |-> <<>>,  prices |-> <<2>>],
    [title |-> 2, images |-> <<>>,     parameters |-> <<2>>, prices |-> <<>>] }

\* db.query(T).filter(T.property_id == property_id).delete()
DeleteRelated(rows, property_id) ==
    SelectSeq(rows, LAMBDA r : r.property_id # property_id)

\* the rows _save_property_* adds for a list of values
RelatedRows(property_id, values) ==
    [i \in 1..Len(values) |-> [property_id |-> property_id, value |-> values[i]]]

SavePropertyImages(db, property_id, images) ==
    [db EXCEPT !.images = db.images \o RelatedRows(property_id, images)]

\* a parameter definition is created for an external_id seen first
SavePropertyParameters(db, property_id, parameters) ==
    [db EXCEPT !.parameters = db.parameters \o RelatedRows(property_id, parameters),
               !.parameter = db.parameter \cup { parameters[i] : i \in 1..Len(parameters) }]

SavePropertyPrices(db, property_id, prices) ==
    [db EXCEPT !.prices = db.prices \o RelatedRows(property_id, prices)]

\* what can go wrong in save_property: the flush or commit raises
\* IntegrityError, or something else raises
SaveFails == {"none", "integrity", "other"}

\* save_property at time t; the new row's id is the next of the sequence
SaveProperty(db, t, property_data, fail) ==
    LET property_id == Len(db.properties) + 1
        property_obj == [id |-> property_id, source |-> "myhome.ge",
                         title |-> property_data.title, last_scraped |-> t]
        added == [db EXCEPT !.properties = Append(db.properties, property_obj)]
        saved == SavePropertyPrices(
                     SavePropertyParameters(
                         SavePropertyImages(added, property_id, property_data.images),
                         property_id, property_data.parameters),
                     property_id, property_data.prices)
    IN  CASE fail = "none"      -> [db |-> saved, result |-> "returned"]
          [] fail = "integrity" -> [db |-> db, result |-> "returned_none"]
          [] OTHER              -> [db |-> db, result |-> "raised"]

\* the DELETE statements of update_property, one of which may fail
DeleteFails == {"delete_images", "delete_parameters", "delete_prices"}

\* what can go wrong in update_property: a DELETE fails (caught, logged,
\* and the method goes on), the flush of the deletions fails (caught too,
\* but the session then refuses the commit), or the commit raises
UpdateFails == {"none", "flush", "commit"} \cup DeleteFails

\* update_property at time t.  After a failed DELETE the method goes on in
\* an aborted transaction: any row it has to insert makes the commit raise;
\* with nothing to insert the commit is answered by a rollback and the
\* method returns.
UpdateProperty(db, t, property_id, property_data, fail) ==
    LET fields_set ==
            [db EXCEPT !.properties =
                [i \in 1..Len(db.properties) |->
                    IF db.properties[i].id = property_id
                    THEN [db.properties[i] EXCEPT !.title = property_data.title,
                                                  !.last_scraped = t]
                    ELSE db.properties[i]]]
        deleted ==
            [fields_set EXCEPT !.images = DeleteRelated(db.images, property_id),
                               !.parameters = DeleteRelated(db.parameters, property_id),
                               !.prices = DeleteRelated(db.prices, property_id)]
        saved == SavePropertyPrices(
                     SavePropertyParameters(
                         SavePropertyImages(deleted, property_id, property_data.images),
                         property_id, property_data.parameters),
                     property_id, property_data.prices)
        nothing_to_insert ==
            /\ property_data.images = <<>>
            /\ property_data.parameters = <<>>
            /\ property_data.prices = <<>>
    IN  CASE fail = "none" -> [db |-> saved, result |-> "returned"]
          [] fail \in DeleteFails ->
                [db |-> db,
                 result |-> IF nothing_to_insert THEN "returned" ELSE "raised"]
          [] OTHER -> [db |-> db, result |-> "raised"]

InitUpdate ==
    /\ cfg \in { c \in Configs : c.max_retries = 3 /\ c.delay_between_requests = 1
                                  /\ c.enable_owner_priority }
    /\ now = 0
    /\ request_times = <<>>
    /\ sent = <<>>
    /\ req = IdleReq
    /\ stats = ZeroStats
    /\ thr = [t \in 1..NumThreads |-> IdleThread]
    /\ admitted = <<>>
    /\ PipeIdle
    /\ DedupIdle
    /\ DbIdle
    /\ hp = IdleHp
    /\ ExtIdle

SavePropertyCall ==
    \E property_data \in PropertyInputs, fail \in SaveFails :
        LET r == SaveProperty(related, now, property_data, fail)
        IN  /\ Len(related.properties) < MaxPropertyId
            /\ related' = r.db
            /\ op' = [name |-> "save_property",
                      property_id |-> Len(related.properties) + 1,
                      property_data |-> property_data, fail |-> fail,
                      result |-> r.result]
            /\ UNCHANGED <<cfg, stats, pipevars, reqvars, dedupvars, hp, extvars>>

UpdatePropertyCall ==
    \E i \in 1..Len(related.properties), property_data \in PropertyInputs,
       fail \in UpdateFails :
        LET property_id == related.properties[i].id
            r == UpdateProperty(related, now, property_id, property_data, fail)
        IN  /\ related' = r.db
            /\ op' = [name |-> "update_property", property_id |-> property_id,
                      property_data |-> property_data, fail |-> fail,
                      result |-> r.result]
            /\ UNCHANGED <<cfg, stats, pipevars, reqvars, dedupvars, hp, extvars>>

NextUpdate == SavePropertyCall \/ UpdatePropertyCall

SpecUpdate == InitUpdate /\ [][NextUpdate]_vars

----------------------------------------------------------------------------
(* DatabaseService.cleanup_old_properties on a properties table drawn from *)
(* a bounded set; each property has one image, parameter and price row     *)

\* config.cleanup_days
CleanupDays == 30

\* timedelta(days = 1) in seconds
SecondsPerDay == 86400

\* datetime.now() - timedelta(days = cleanup_days)
CutoffDate(t) == t - CleanupDays * SecondsPerDay

\* the times at which cleanup is called: day 31 and day 40
CleanupTimes == {31 * SecondsPerDay, 40 * SecondsPerDay}

\* last_scraped of the stored rows: never set (NULL), and moments around
\* the cutoff of day 40 (day 10)
LastScrapedTimes == {Null, 10 * SecondsPerDay - 1, 10 * SecondsPerDay, 39 * SecondsPerDay}

\* source of the stored rows
Sources == {"myhome.ge", "other"}

\* the query for old properties, without the source filter
OldPropertiesAnySource(db, cutoff_date) ==
    SelectSeq(db.properties,
              LAMBDA prop : \/ (prop.last_scraped # Null /\ prop.last_scraped < cutoff_date)
                            \/ prop.last_scraped = Null)

\* the query for old properties; a comparison with NULL is not true in SQL
OldProperties(db, cutoff_date) ==
    SelectSeq(db.properties,
              LAMBDA prop : /\ prop.source = "myhome.ge"
                            /\ \/ (prop.last_scraped # Null /\ prop.last_scraped < cutoff_date)
                               \/ prop.last_scraped = Null)

\* the four DELETE statements issued for one property, in order
DeleteStatements(property_id) ==
    << [table |-> "images", property_id |-> property_id],
       [table |-> "parameters", property_id |-> property_id],
       [table |-> "prices", property_id |-> property_id],
       [table |-> "properties", property_id |-> property_id] >>

\* the tables after those statements
DeleteProperty(db, property_id) ==
    [db EXCEPT !.images = DeleteRelated(db.images, property_id),
               !.parameters = DeleteRelated(db.parameters, property_id),
               !.prices = DeleteRelated(db.prices, property_id),
               !.properties = SelectSeq(db.properties, LAMBDA r : r.id # property_id)]

\* the loop over old_properties from position k; tx is the open
\* transaction (its view of the tables and its statements), committed the
\* tables as last committed.  A property in failing makes its deletion
\* raise: the handler rolls the session back, which discards everything
\* the open transaction has done, and the loop goes on.
RECURSIVE CleanupLoop(_, _, _, _, _)
CleanupLoop(old_properties, k, tx, committed, failing) ==
    IF k > Len(old_properties) THEN tx
    ELSE LET prop == old_properties[k]
             after == IF prop.id \in failing
                      THEN [db |-> committed, log |-> <<>>]
                      ELSE [db |-> DeleteProperty(tx.db, prop.id),
                            log |-> tx.log \o DeleteStatements(prop.id)]
         IN  CleanupLoop(old_properties, k + 1, after, committed, failing)

\* what can go wrong outside the loop: the query or the commit raises
CleanupFails == {"none", "query", "commit"}

\* cleanup_old_properties at time t
CleanupOldProperties(db, t, failing, fail) ==
    LET cutoff_date == CutoffDate(t)
        old_properties == OldProperties(db, cutoff_date)
        tx == CleanupLoop(old_properties, 1, [db |-> db, log |-> <<>>], db, failing)
    IN  IF fail = "none"
        THEN [db |-> tx.db, count |-> Len(old_properties), log |-> tx.log]
        ELSE [db |-> db, count |-> 0, log |-> <<>>]

\* a table of n properties with the given rows, each with one row in every
\* dependent table
TablesOf(properties) ==
    LET one(i) == [property_id |-> properties[i].id, value |-> 1]
        rows == [i \in 1..Len(properties) |-> one(i)]
    IN  [properties |-> properties, images |-> rows, parameters |-> rows,
         prices |-> rows,
         parameter |-> IF properties = <<>> THEN {} ELSE {1}]

\* the properties tables tried
PropertyTables ==
    UNION { { [i \in 1..n |-> [id |-> i, source |-> f[i].source, title |-> 1,
                               last_scraped |-> f[i].last_scraped]] :
              f \in [1..n -> [source : Sources, last_scraped : LastScrapedTimes]] } :
            n \in 0..MaxCleanupRows }

InitCleanup ==
    /\ cfg \in { c \in Configs : c.max_retries = 3 /\ c.delay_between_requests = 1
                                  /\ c.enable_owner_priority }
    /\ now \in CleanupTimes
    /\ request_times = <<>>
    /\ sent = <<>>
    /\ req = IdleReq
    /\ stats = ZeroStats
    /\ thr = [t \in 1..NumThreads |-> IdleThread]
    /\ admitted = <<>>
    /\ PipeIdle
    /\ DedupIdle
    /\ related \in { TablesOf(properties) : properties \in PropertyTables }
    /\ op = NoOp
    /\ hp = IdleHp
    /\ ExtIdle

CleanupOldPropertiesCall ==
    \E failing \in SUBSET { related.properties[i].id : i \in 1..Len(related.properties) },
       fail \in CleanupFails :
        LET r == CleanupOldProperties(related, now, failing, fail)
        IN  /\ op.name = "none"
            /\ related' = r.db
            /\ op' = [name |-> "cleanup_old_properties", before |-> related,
                      cutoff_date |-> CutoffDate(now), failing |-> failing,
                      fail |-> fail, count |-> r.count, log |-> r.log]
            /\ UNCHANGED <<cfg, stats, pipevars, reqvars, dedupvars, hp, extvars>>

NextCleanup == CleanupOldPropertiesCall

SpecCleanup == InitCleanup /\ [][NextCleanup]_vars

----------------------------------------------------------------------------
(* HighPerformancePropertyScraper.scrape_all_properties_async: pages are   *)
(* fetched in concurrent batches; SIGINT / SIGTERM set shutdown_requested. *)
(* The properties of a page are represented by the page's number.          *)

\* the pages of the batch in the order process_page_batch walks them
RECURSIVE PagesInOrder(_, _)
PagesInOrder(lo, hi) == IF lo > hi THEN <<>> ELSE <<lo>> \o PagesInOrder(lo + 1, hi)

\* the pages of the batch whose fetch returned properties
RECURSIVE BatchProperties(_, _)
BatchProperties(pages, result) ==
    IF pages = <<>> THEN <<>>
    ELSE (IF result[Head(pages)] = "data" THEN <<Head(pages)>> ELSE <<>>)
         \o BatchProperties(Tail(pages), result)

\* the rest of other variables stay as they are
HpOnly == UNCHANGED <<cfg, stats, pipevars, reqvars, dedupvars, dbvars, extvars>>

InitCancel ==
    /\ cfg \in { c \in Configs : c.max_retries = 3 /\ c.delay_between_requests = 1
                                  /\ c.enable_owner_priority }
    /\ now = 0
    /\ request_times = <<>>
    /\ sent = <<>>
    /\ req = IdleReq
    /\ stats = ZeroStats
    /\ thr = [t \in 1..NumThreads |-> IdleThread]
    /\ admitted = <<>>
    /\ PipeIdle
    /\ DedupIdle
    /\ DbIdle
    /\ hp = IdleHp
    /\ ExtIdle

\* signal_handler
SignalHandler ==
    /\ hp.pc # "done"
    /\ ~hp.shutdown_requested
    /\ hp' = [hp EXCEPT !.shutdown_requested = TRUE]
    /\ HpOnly

\* scrape_all_properties_async up to the loop
ScrapeAllStart ==
    /\ hp.pc = "idle"
    /\ hp' = [hp EXCEPT !.pc = "loop"]
    /\ HpOnly

\* the top of the while loop: one of the breaks followed by the final yield,
\* or the start of the next batch of pages
LoopTop(memory_ok) ==
    /\ hp.pc = "loop"
    /\ IF \/ hp.shutdown_requested
          \/ hp.page > MaxPages
          \/ hp.empty_batches >= MaxEmptyBatches
          \/ ~memory_ok
       THEN hp' = [hp EXCEPT !.pc = "done",
                             !.written = @ \o hp.all_properties,
                             !.all_properties = <<>>]
       ELSE LET last == IF hp.page + PageBatchSize - 1 < MaxPages
                        THEN hp.page + PageBatchSize - 1 ELSE MaxPages
            IN  hp' = [hp EXCEPT !.pc = "batch",
                                 !.batch_pages = hp.page..last,
                                 !.attempt = [p \in hp.page..last |-> 0],
                                 !.result = [p \in hp.page..last |-> "pending"]]
    /\ HpOnly

\* one pass of the retry loop of fetch_page_async for a page of the batch
FetchPageAttempt(p, response) ==
    /\ hp.pc = "batch"
    /\ p \in hp.batch_pages
    /\ hp.result[p] = "pending"
    /\ IF hp.shutdown_requested
       THEN hp' = [hp EXCEPT !.result[p] = "cancelled"]
       ELSE IF response \in {"data", "empty"}
       THEN hp' = [hp EXCEPT !.result[p] = response]
       ELSE IF hp.attempt[p] + 1 < FetchRetries
       THEN hp' = [hp EXCEPT !.attempt[p] = @ + 1]
       ELSE hp' = [hp EXCEPT !.result[p] = "failed", !.error_count = @ + 1]
    /\ HpOnly

\* process_page_batch after the gather, and the rest of the loop body
ProcessPageBatchEnd ==
    /\ hp.pc = "batch"
    /\ \A p \in hp.batch_pages : hp.result[p] # "pending"
    /\ LET lo == CHOOSE p \in hp.batch_pages : \A q \in hp.batch_pages : p <= q
           hi == CHOOSE p \in hp.batch_pages : \A q \in hp.batch_pages : q <= p
           batch_properties == BatchProperties(PagesInOrder(lo, hi), hp.result)
           collected == hp.all_properties \o batch_properties
           flush == batch_properties # <<>> /\ Len(collected) > FlushAbove
       IN  hp' = [hp EXCEPT !.pc = "loop",
                            !.page = hi + 1,
                            !.empty_batches = IF batch_properties = <<>> THEN @ + 1 ELSE 0,
                            !.all_properties = IF flush THEN <<>> ELSE collected,
                            !.written = IF flush THEN @ \o collected ELSE @]
    /\ HpOnly

NextCancel ==
    \/ SignalHandler
    \/ ScrapeAllStart
    \/ \E memory_ok \in BOOLEAN : LoopTop(memory_ok)
    \/ \E p \in 1..MaxPages, response \in {"data", "empty", "error"} :
          FetchPageAttempt(p, response)
    \/ ProcessPageBatchEnd

SpecCancel == InitCancel /\ [][NextCancel]_vars

----------------------------------------------------------------------------
(* The same run with request_semaphore: every fetch_page_async acquires a  *)
(* permit before its retry loop                                            *)

InitPermits ==
    /\ cfg \in { c \in Configs : c.max_retries = 3 /\ c.delay_between_requests = 1
                                  /\ c.enable_owner_priority }
    /\ now = 0
    /\ request_times = <<>>
    /\ sent = <<>>
    /\ req = IdleReq
    /\ stats = ZeroStats
    /\ thr = [t \in 1..NumThreads |-> IdleThread]
    /\ admitted = <<>>
    /\ PipeIdle
    /\ DedupIdle
    /\ DbIdle
    /\ \E max_concurrent \in 1..MaxConcurrent :
          hp = [pc |-> "idle", shutdown_requested |-> FALSE, page |-> 1,
                empty_batches |-> 0, batch_pages |-> {}, attempt |-> <<>>,
                result |-> <<>>, all_properties |-> <<>>, written |-> <<>>,
                error_count |-> 0, max_concurrent |-> max_concurrent,
                permits |-> 0, holding |-> {}]
    /\ ExtIdle

\* scrape_all_properties_async up to the loop: the semaphore is created
\* with max_concurrent permits
ScrapeAllStartSemaphore ==
    /\ hp.pc = "idle"
    /\ hp' = [hp EXCEPT !.pc = "loop", !.permits = hp.max_concurrent]
    /\ HpOnly

\* await self.request_semaphore.acquire() of the fetch of page p: the task
\* goes on once a permit is free
SemaphoreAcquire(p) ==
    /\ hp.pc = "batch"
    /\ p \in hp.batch_pages
    /\ hp.result[p] = "pending"
    /\ p \notin hp.holding
    /\ hp.permits > 0
    /\ hp' = [hp EXCEPT !.permits = @ - 1, !.holding = @ \cup {p}]
    /\ HpOnly

\* one pass of the retry loop of fetch_page_async for a page whose task
\* holds a permit: the return at shutdown keeps the permit, the return of
\* the data and the return after the last attempt release it
FetchPageAttemptHolding(p, response) ==
    /\ hp.pc = "batch"
    /\ p \in hp.holding
    /\ hp.result[p] = "pending"
    /\ IF hp.shutdown_requested
       THEN hp' = [hp EXCEPT !.result[p] = "cancelled", !.holding = @ \ {p}]
       ELSE IF response \in {"data", "empty"}
       THEN hp' = [hp EXCEPT !.result[p] = response, !.holding = @ \ {p},
                             !.permits = @ + 1]
       ELSE IF hp.attempt[p] + 1 < FetchRetries
       THEN hp' = [hp EXCEPT !.attempt[p] = @ + 1]
       ELSE hp' = [hp EXCEPT !.result[p] = "failed", !.error_count = @ + 1,
                             !.holding = @ \ {p}, !.permits = @ + 1]
    /\ HpOnly

NextPermits ==
    \/ SignalHandler
    \/ ScrapeAllStartSemaphore
    \/ \E memory_ok \in BOOLEAN : LoopTop(memory_ok)
    \/ \E p \in 1..MaxPages : SemaphoreAcquire(p)
    \/ \E p \in 1..MaxPages, response \in {"data", "empty", "error"} :
          FetchPageAttemptHolding(p, response)
    \/ ProcessPageBatchEnd

SpecPermits == InitPermits /\ [][NextPermits]_vars

----------------------------------------------------------------------------
(* Multilingual enrichment of one property: MultilingualWorker of          *)
(* back-end/scraper (worker "backend") and of multilingual-worker (worker  *)
(* "standalone"), each with its own MultilingualProcessor.  A text is a    *)
(* sequence of pieces; the Georgian terms are written in Latin letters.    *)

\* Python None in a text column or field
NoneText == <<"None">>

\* bool(text) of a text or None
TruthyText(text) == text # NoneText /\ text # <<>>

\* text or ''
OrEmpty(text) == IF text = NoneText THEN <<>> ELSE text

\* text.strip()
StripText(text) == RStrip(LStrip(text))

\* old in text
RECURSIVE ContainsText(_, _)
ContainsText(text, old) ==
    IF IsPrefix(old, text) THEN TRUE
    ELSE IF text = <<>> THEN FALSE
    ELSE ContainsText(Tail(text), old)

\* translation_map['ka'] of _apply_fallback_translations, in the order of
\* the dict: the entries for bina, otakhi and otakhiani
TranslationMap ==
    << [ka |-> <<"bina">>, en |-> <<"Apartment">>, ru |-> <<"Kvartira">>],
       [ka |-> <<"otakhi">>, en |-> <<"Room">>, ru |-> <<"Komnata">>],
       [ka |-> <<"otakhi", "ani">>, en |-> <<"Room">>, ru |-> <<"komnatnyj">>] >>

\* the loop over translation_map['ka'] from entry k on: a term found in the
\* Georgian text is replaced in the text translated so far
RECURSIVE TranslateTerms(_, _, _, _)
TranslateTerms(georgian, translated, language, k) ==
    IF k > Len(TranslationMap) THEN translated
    ELSE LET entry == TranslationMap[k]
             to    == IF language = "en" THEN entry.en ELSE entry.ru
         IN  TranslateTerms(georgian,
                            IF ContainsText(georgian, entry.ka)
                            THEN ReplaceAll(translated, entry.ka, to) ELSE translated,
                            language, k + 1)

\* MultilingualProcessor._apply_fallback_translations (multilingual-worker)
ApplyFallbackTranslations(property_data) ==
    LET georgian_title == OrEmpty(property_data.title)
        georgian_desc  == OrEmpty(property_data.description)
        en_title == TranslateTerms(georgian_title, georgian_title, "en", 1)
        ru_title == TranslateTerms(georgian_title, georgian_title, "ru", 1)
        en_desc  == TranslateTerms(georgian_desc, georgian_desc, "en", 1)
        ru_desc  == TranslateTerms(georgian_desc, georgian_desc, "ru", 1)
    IN  [property_data EXCEPT
            !.title_en = IF en_title # georgian_title THEN StripText(en_title) ELSE @,
            !.title_ru = IF ru_title # georgian_title THEN StripText(ru_title) ELSE @,
            !.description_en = IF en_desc # georgian_desc /\ georgian_desc # <<>>
                               THEN StripText(en_desc) ELSE @,
            !.description_ru = IF ru_desc # georgian_desc /\ georgian_desc # <<>>
                               THEN StripText(ru_desc) ELSE @]

\* what _fetch_property_in_language returns: None (HTTP status other than
\* 200, no data, or an exception), or the content of the detail response
NoContent == [none |-> TRUE]

\* the title and description of a detail response
Contents ==
    [title : {<<>>, <<"T">>, <<" ", "T">>}, description : {<<>>, <<"D">>}]

\* MultilingualProcessor._update_property_language_content
UpdatePropertyLanguageContent(property_data, content, language) ==
    LET title       == StripText(content.title)
        description == StripText(content.description)
    IN  IF language = "en"
        THEN [property_data EXCEPT
                !.title_en = IF title # <<>> THEN title ELSE @,
                !.description_en = IF description # <<>> THEN description ELSE @]
        ELSE [property_data EXCEPT
                !.title_ru = IF title # <<>> THEN title ELSE @,
                !.description_ru = IF description # <<>> THEN description ELSE @]

\* the translated fields of a record
TranslatedFields == {"title_en", "title_ru", "description_en", "description_ru"}

\* the row of the properties table is gone
GoneRow == [gone |-> TRUE]

\* MultilingualWorker._convert_to_property_data
ConvertToPropertyData(property_obj) ==
    [external_id |-> property_obj.external_id,
     title |-> OrEmpty(property_obj.title),
     description |-> OrEmpty(property_obj.description),
     title_en |-> property_obj.title_en,
     title_ru |-> property_obj.title_ru,
     description_en |-> property_obj.description_en,
     description_ru |-> property_obj.description_ru]

\* the field has new content: the test made four times in
\* process_single_property and in _update_property_multilingual_content
NewContent(property_data, property_obj, f) ==
    TruthyText(property_data[f]) /\ property_data[f] # property_obj[f]

\* has_new_content that is true whatever was fetched
HasNewContentAlways(property_data, property_obj) == TRUE

\* has_new_content of process_single_property
HasNewContent(property_data, property_obj) ==
    \E f \in TranslatedFields : NewContent(property_data, property_obj, f)

\* property_obj after the assignments of _update_property_multilingual_content
AssignNewContent(property_obj, property_data) ==
    [f \in DOMAIN property_obj |->
        IF f \in TranslatedFields /\ NewContent(property_data, property_obj, f)
        THEN property_data[f] ELSE property_obj[f]]

\* db.merge(property_obj) and db.commit(): the state of property_obj is
\* copied onto the row with its primary key, and a row is inserted when
\* there is none
MergeAndCommit(row, property_obj) == property_obj

\* the Georgian titles and descriptions tried
GeorgianTitles ==
    { <<"x">>, <<"bina">>, <<"2", " ", "otakhi", "ani", " ", "bina">> }
GeorgianDescriptions == { NoneText, <<"x">>, <<"otakhi", " ", "x">> }

\* the rows a worker is handed: at least one translated field is NULL
EnrichRows ==
    { [id |-> 1, external_id |-> 1, title |-> t, description |-> d,
       title_en |-> e, title_ru |-> NoneText,
       description_en |-> NoneText, description_ru |-> NoneText,
       rent_amount |-> 100] :
        t \in GeorgianTitles, d \in GeorgianDescriptions, e \in {NoneText, <<"T">>} }

\* who calls process_multilingual_content with which processor: the
\* worker of back-end/scraper, the worker of multilingual-worker, or a
\* caller that hands it a PropertyData of its own, as test_fallback.py does
EnrichSetups ==
    { [worker |-> "backend", caller |-> "worker", concurrent_languages |-> TRUE],
      [worker |-> "standalone", caller |-> "worker", concurrent_languages |-> TRUE],
      [worker |-> "backend", caller |-> "direct", concurrent_languages |-> TRUE],
      [worker |-> "backend", caller |-> "direct", concurrent_languages |-> FALSE],
      [worker |-> "standalone", caller |-> "direct", concurrent_languages |-> TRUE] }

InitEnrich ==
    /\ cfg \in { c \in Configs : c.max_retries = 3 /\ c.delay_between_requests = 1
                                  /\ c.enable_owner_priority }
    /\ now = 0
    /\ request_times = <<>>
    /\ sent = <<>>
    /\ req = IdleReq
    /\ stats = ZeroStats
    /\ thr = [t \in 1..NumThreads |-> IdleThread]
    /\ admitted = <<>>
    /\ PipeIdle
    /\ DedupIdle
    /\ DbIdle
    /\ hp = IdleHp
    /\ built = IdleBuilt
    /\ mb = IdleMb
    /\ ret = IdleRet
    /\ ml \in { [pc |-> "start", setup |-> u, row |-> r, read |-> r,
                 property_obj |-> r, property_data |-> ConvertToPropertyData(r),
                 fetched |-> <<>>, attempts |-> <<>>, api_success |-> FALSE,
                 fallback |-> FALSE, wrote |-> FALSE] :
                u \in EnrichSetups, r \in EnrichRows }

\* everything but ml stays as it is
MlOnly == UNCHANGED <<cfg, stats, pipevars, reqvars, dedupvars, dbvars, hp, built, mb, ret>>

\* get_properties_needing_translation of the back-end worker returns the
\* row; get_properties_for_multilingual_processing of the standalone worker
\* builds PropertyData(id=..., ...) for every row found, which raises
\* TypeError, and returns [] from its handler
GetProperties ==
    /\ ml.pc = "start"
    /\ ml.setup.caller = "worker"
    /\ ml' = IF ml.setup.worker = "backend"
             THEN [ml EXCEPT !.pc = "en", !.read = ml.row, !.property_obj = ml.row,
                             !.property_data = ConvertToPropertyData(ml.row)]
             ELSE [ml EXCEPT !.pc = "done"]
    /\ MlOnly

\* a caller builds the PropertyData itself and calls the processor
DirectCall ==
    /\ ml.pc = "start"
    /\ ml.setup.caller = "direct"
    /\ ml' = [ml EXCEPT !.pc = IF ml.setup.worker = "backend" /\ ~ml.setup.concurrent_languages
                               THEN "processed" ELSE "en"]
    /\ MlOnly

\* process_multilingual_content for one language: session.get on the detail
\* URL, once, then _update_property_language_content; after the last
\* language the standalone processor applies the fallback when no fetch
\* returned content
FetchPropertyInLanguage(content) ==
    /\ ml.pc \in {"en", "ru"}
    /\ LET updated == IF content = NoContent THEN ml.property_data
                      ELSE UpdatePropertyLanguageContent(ml.property_data, content, ml.pc)
           api_success == ml.api_success \/ content # NoContent
           fallback == ml.pc = "ru" /\ ml.setup.worker = "standalone" /\ ~api_success
       IN  ml' = [ml EXCEPT !.pc = IF ml.pc = "en" THEN "ru" ELSE "processed",
                            !.fetched = Append(@, content),
                            !.attempts = Append(@, 1),
                            !.api_success = api_success,
                            !.fallback = fallback,
                            !.property_data = IF fallback
                                              THEN ApplyFallbackTranslations(updated)
                                              ELSE updated]
    /\ MlOnly

\* the rest of process_single_property: the comparison with property_obj
\* and _update_property_multilingual_content
ProcessSinglePropertyEnd ==
    /\ ml.pc = "processed"
    /\ ml.setup.caller = "worker"
    /\ IF HasNewContent(ml.property_data, ml.property_obj)
       THEN LET property_obj == AssignNewContent(ml.property_obj, ml.property_data)
            IN  ml' = [ml EXCEPT !.pc = "done", !.property_obj = property_obj,
                                 !.row = MergeAndCommit(ml.row, property_obj),
                                 !.wrote = TRUE]
       ELSE ml' = [ml EXCEPT !.pc = "done"]
    /\ MlOnly

\* between the worker's read and its write the scraper changes another
\* column of the row
RowModified ==
    /\ ml.pc \in {"en", "ru", "processed"}
    /\ ml.setup.caller = "worker"
    /\ ml.row # GoneRow
    /\ ml.row.rent_amount = 100
    /\ ml' = [ml EXCEPT !.row.rent_amount = 200]
    /\ MlOnly

\* between the worker's read and its write the row is deleted
RowDeleted ==
    /\ ml.pc \in {"en", "ru", "processed"}
    /\ ml.setup.caller = "worker"
    /\ ml.row # GoneRow
    /\ ml' = [ml EXCEPT !.row = GoneRow]
    /\ MlOnly

NextEnrich ==
    \/ GetProperties
    \/ DirectCall
    \/ \E content \in Contents \cup {NoContent} : FetchPropertyInLanguage(content)
    \/ ProcessSinglePropertyEnd
    \/ RowModified
    \/ RowDeleted

SpecEnrich == InitEnrich /\ [][NextEnrich]_vars

----------------------------------------------------------------------------
(* run_multilingual_batch: the loop that selects a batch of properties     *)
(* needing translation and hands it to the worker. Time is counted in      *)
(* passes of the loop; the row created at pass i carries created_at = i.   *)

\* what the upstream holds for a listing in the secondary languages:
\* nothing, a title only, or a title and a description
BatchContents ==
    { NoContent,
      [title |-> <<"T">>, description |-> <<>>],
      [title |-> <<"T">>, description |-> <<"D">>] }

\* the row of a listing stored without translations
UntranslatedRow(i) ==
    [id |-> i, external_id |-> i, title |-> <<"x">>, description |-> <<"x">>,
     title_en |-> NoneText, title_ru |-> NoneText,
     description_en |-> NoneText, description_ru |-> NoneText,
     is_available |-> TRUE, listing_type |-> "rent", created_at |-> i]

\* the filter of get_properties_needing_translation
NeedsTranslation(row, time) ==
    /\ row.is_available
    /\ row.listing_type = "rent"
    /\ \E f \in TranslatedFields : row[f] = NoneText
    /\ row.created_at >= time - RecentPasses

\* the ids of the rows from the i-th down to the first that pass the
\* filter: order_by(created_at.desc())
RECURSIVE NeedingFrom(_, _, _)
NeedingFrom(table, i, time) ==
    IF i = 0 THEN <<>>
    ELSE (IF NeedsTranslation(table[i], time) THEN <<i>> ELSE <<>>)
         \o NeedingFrom(table, i - 1, time)

\* get_properties_needing_translation(db, limit)
GetPropertiesNeedingTranslation(table, time, limit) ==
    LET all == NeedingFrom(table, Len(table), time)
    IN  IF Len(all) <= limit THEN all ELSE SubSeq(all, 1, limit)

\* process_single_property: the row after the two detail fetches and the
\* write of the new content, if there is any
ProcessSingleTranslation(row, content) ==
    LET pd0 == ConvertToPropertyData(row)
        pd1 == IF content = NoContent THEN pd0
               ELSE UpdatePropertyLanguageContent(pd0, content, "en")
        pd2 == IF content = NoContent THEN pd1
               ELSE UpdatePropertyLanguageContent(pd1, content, "ru")
    IN  IF HasNewContent(pd2, row)
        THEN MergeAndCommit(row, AssignNewContent(row, pd2))
        ELSE row

\* process_property_batch: the table after the properties were processed
\* one after the other
RECURSIVE ProcessPropertyBatch(_, _, _)
ProcessPropertyBatch(table, properties, upstream) ==
    IF properties = <<>> THEN table
    ELSE LET i == Head(properties)
         IN  ProcessPropertyBatch(
                 [table EXCEPT ![i] = ProcessSingleTranslation(table[i], upstream[i])],
                 Tail(properties), upstream)

\* the elements of a sequence
SeqRange(q) == { q[k] : k \in 1..Len(q) }

InitBatch ==
    /\ cfg \in { c \in Configs : c.max_retries = 3 /\ c.delay_between_requests = 1
                                  /\ c.enable_owner_priority }
    /\ now = 0
    /\ request_times = <<>>
    /\ sent = <<>>
    /\ req = IdleReq
    /\ stats = ZeroStats
    /\ thr = [t \in 1..NumThreads |-> IdleThread]
    /\ admitted = <<>>
    /\ PipeIdle
    /\ DedupIdle
    /\ DbIdle
    /\ hp = IdleHp
    /\ built = IdleBuilt
    /\ ml = IdleMl
    /\ ret = IdleRet
    /\ \E n \in 1..MaxBatchRows, batch_size \in 1..MaxBatchSize :
       \E upstream \in [1..n -> BatchContents] :
          mb = [pc |-> "start", batch_size |-> batch_size, max_properties |-> Null,
                table |-> [i \in 1..n |-> UntranslatedRow(i)],
                upstream |-> upstream, time |-> n, processed_count |-> 0,
                needing |-> {}, properties |-> <<>>, handled |-> {}]

MbOnly == UNCHANGED <<cfg, stats, pipevars, reqvars, dedupvars, dbvars, hp, built, ml, ret>>

\* run_multilingual_batch up to the loop: the count of the properties
\* needing translation, and the return when there is none
RunMultilingualBatchStart ==
    /\ mb.pc = "start"
    /\ LET needing == SeqRange(GetPropertiesNeedingTranslation(mb.table, mb.time, 10000))
       IN  mb' = [mb EXCEPT !.needing = needing,
                            !.pc = IF needing = {} THEN "done" ELSE "loop"]
    /\ MbOnly

\* one pass of the while loop
RunMultilingualBatchPass ==
    /\ mb.pc = "loop"
    /\ LET properties == GetPropertiesNeedingTranslation(mb.table, mb.time, mb.batch_size)
       IN  IF properties = <<>>
           THEN mb' = [mb EXCEPT !.pc = "done", !.properties = <<>>]
           ELSE IF mb.max_properties # Null /\ mb.processed_count >= mb.max_properties
           THEN mb' = [mb EXCEPT !.pc = "done", !.properties = properties]
           ELSE mb' = [mb EXCEPT
                         !.properties = properties,
                         !.table = ProcessPropertyBatch(mb.table, properties, mb.upstream),
                         !.handled = @ \cup SeqRange(properties),
                         !.processed_count = @ + Len(properties),
                         !.time = @ + 1]
    /\ MbOnly

NextBatch ==
    \/ RunMultilingualBatchStart
    \/ RunMultilingualBatchPass

SpecBatch == InitBatch /\ [][NextBatch]_vars

----------------------------------------------------------------------------
(* Ingestion runs of MyHomeAdvancedScraper and cleanup_old_properties over *)
(* the days, on one properties table whose rows carry last_scraped         *)

\* days the clock advances between two events
RetentionStepDays == 16

\* brand-new table, no run made
InitialRet == [table |-> <<>>, next_id |-> 1, last_confirmed |-> [i \in 1..MaxId |-> Null],
               last |-> "none", deleted |-> {}]

\* the rows flushed in this run get their id and the last_scraped that
\* PropertyData.to_dict gives them: datetime.now()
RECURSIVE StampNewRows(_, _, _)
StampNewRows(db, next_id, t) ==
    IF db = <<>> THEN <<>>
    ELSE LET r == Head(db)
         IN  IF "last_scraped" \in DOMAIN r
             THEN <<r>> \o StampNewRows(Tail(db), next_id, t)
             ELSE << [id |-> next_id, external_id |-> r.external_id, source |-> r.source,
                      user_type |-> r.user_type, latitude |-> r.latitude,
                      longitude |-> r.longitude, address |-> r.address,
                      last_scraped |-> t] >>
                  \o StampNewRows(Tail(db), next_id + 1, t)

\* the first pages tried: listings of private owners at one place
RetentionPages ==
    { p \in Pages : \A k \in 1..Len(p) : p[k].user_type = "individual" /\ p[k].lat = 4100000 }

\* the external ids of the listings of a page
UpstreamIds(properties) == { properties[k].id : k \in 1..Len(properties) } \ {0}

InitRetention ==
    /\ cfg \in { c \in Configs : c.max_retries = 3 /\ c.delay_between_requests = 1
                                  /\ c.enable_owner_priority }
    /\ now = 0
    /\ request_times = <<>>
    /\ sent = <<>>
    /\ req = IdleReq
    /\ stats = ZeroStats
    /\ thr = [t \in 1..NumThreads |-> IdleThread]
    /\ admitted = <<>>
    /\ PipeIdle
    /\ DedupIdle
    /\ DbIdle
    /\ hp = IdleHp
    /\ built = IdleBuilt
    /\ ml = IdleMl
    /\ mb = IdleMb
    /\ ret = InitialRet

\* the days pass
DaysPass ==
    /\ now + RetentionStepDays * SecondsPerDay <= MaxRetentionDay * SecondsPerDay
    /\ now' = now + RetentionStepDays * SecondsPerDay
    /\ ret' = [ret EXCEPT !.last = "days", !.deleted = {}]
    /\ UNCHANGED <<cfg, request_times, sent, req, thr, admitted, stats, pipevars,
                   dedupvars, dbvars, hp, built, ml, mb>>

\* one scrape() whose first page holds the given listings and whose later
\* pages hold none: the filter on seen ids and _process_properties_batch
IngestionRun(properties) ==
    LET f == NewProperties(properties, {}, <<>>)
        r == IF f.new_properties # <<>>
             THEN ProcessPropertiesBatch(ret.table, f.new_properties, ZeroStats, NoFail)
             ELSE [db |-> ret.table]
        table == StampNewRows(r.db, ret.next_id, now)
    IN  /\ properties # <<>>
        /\ ret' = [ret EXCEPT
                     !.table = table,
                     !.next_id = @ + (Len(table) - Len(ret.table)),
                     !.last_confirmed = [i \in 1..MaxId |->
                                           IF i \in UpstreamIds(properties) THEN now ELSE @[i]],
                     !.last = "run", !.deleted = {}]
        /\ UNCHANGED <<cfg, stats, pipevars, reqvars, dedupvars, dbvars, hp, built, ml, mb>>

\* cleanup_old_properties on the table
RetentionCleanup ==
    LET r == CleanupOldProperties(TablesOf(ret.table), now, {}, "none")
    IN  /\ ret.last # "cleanup"
        /\ ret' = [ret EXCEPT
                     !.table = r.db.properties,
                     !.last = "cleanup",
                     !.deleted = { ret.table[i].external_id : i \in 1..Len(ret.table) }
                                 \ { r.db.properties[i].external_id :
                                       i \in 1..Len(r.db.properties) }]
        /\ UNCHANGED <<cfg, stats, pipevars, reqvars, dedupvars, dbvars, hp, built, ml, mb>>

NextRetention ==
    \/ DaysPass
    \/ \E properties \in RetentionPages : IngestionRun(properties)
    \/ RetentionCleanup

SpecRetention == InitRetention /\ [][NextRetention]_vars

----------------------------------------------------------------------------
(* Construction of MyHomeAdvancedScraper: the overrides of its constructor *)
(* and the validation of BaseScraper.__init__                              *)

\* ScrapingConfig(): the defaults of the dataclass; delay_between_requests
\* in hundredths of a second, URLs as a scheme followed by the rest
DefaultScrapingConfig ==
    [max_properties |-> 50000, batch_size |-> 50, delay_between_requests |-> 1,
     max_retries |-> 3, timeout |-> 30, cleanup_days |-> 30,
     rate_limit_per_minute |-> 600, per_page |-> 1000,
     user_agents |-> <<"Mozilla/5.0">>, languages |-> <<"ka", "en", "ru">>,
     api_endpoints |-> <<"https://", "api-statements.tnet.ge/v1/statements">>,
     image_storage_path |-> "/app/data/property_images"]

\* configurations a caller may hand to the constructor
ScrapingConfigs ==
    [max_properties : {0, 50000}, batch_size : {0, 50, 1000, 1001},
     delay_between_requests : {-1, 1}, max_retries : {0, 3}, timeout : {0, 30},
     cleanup_days : {-1, 30}, rate_limit_per_minute : {0, 600}, per_page : {1000},
     user_agents : {<<>>, <<"Mozilla/5.0">>}, languages : {<<"ka", "en", "ru">>},
     api_endpoints : {<<"https://", "api-statements.tnet.ge/v1/statements">>,
                      <<"ftp://", "api-statements.tnet.ge/v1/statements">>},
     image_storage_path : {"", "/app/data/property_images"}]

\* ScrapingConfig.validate: the list of errors, as a set
ValidationErrors(c) ==
    { e \in {"max_properties must be positive",
             "batch_size must be between 1 and 1000",
             "delay_between_requests cannot be negative",
             "max_retries must be at least 1",
             "timeout must be positive",
             "cleanup_days cannot be negative",
             "rate_limit_per_minute must be positive",
             "user_agents list cannot be empty",
             "languages list cannot be empty",
             "Invalid URL",
             "path cannot be empty"} :
        \/ e = "max_properties must be positive" /\ c.max_properties <= 0
        \/ e = "batch_size must be between 1 and 1000"
             /\ (c.batch_size <= 0 \/ c.batch_size > 1000)
        \/ e = "delay_between_requests cannot be negative" /\ c.delay_between_requests < 0
        \/ e = "max_retries must be at least 1" /\ c.max_retries < 1
        \/ e = "timeout must be positive" /\ c.timeout <= 0
        \/ e = "cleanup_days cannot be negative" /\ c.cleanup_days < 0
        \/ e = "rate_limit_per_minute must be positive" /\ c.rate_limit_per_minute <= 0
        \/ e = "user_agents list cannot be empty" /\ c.user_agents = <<>>
        \/ e = "languages list cannot be empty" /\ c.languages = <<>>
        \/ e = "Invalid URL" /\ c.api_endpoints[1] \notin {"http://", "https://"}
        \/ e = "path cannot be empty" /\ c.image_storage_path = "" }

\* the values the constructor installs before it calls BaseScraper.__init__
MaximumSpeedOverrides(c) ==
    [c EXCEPT !.max_properties = 999999999, !.per_page = 1000,
              !.batch_size = 999999999]

InitConstruct ==
    /\ cfg \in { c \in Configs : c.max_retries = 3 /\ c.delay_between_requests = 1
                                  /\ c.enable_owner_priority }
    /\ now = 0
    /\ request_times = <<>>
    /\ sent = <<>>
    /\ req = IdleReq
    /\ stats = ZeroStats
    /\ thr = [t \in 1..NumThreads |-> IdleThread]
    /\ admitted = <<>>
    /\ PipeIdle
    /\ DedupIdle
    /\ DbIdle
    /\ hp = IdleHp
    /\ ml = IdleMl
    /\ mb = IdleMb
    /\ ret = IdleRet
    /\ \E argument \in {"none", "config"} :
       \E c \in ScrapingConfigs :
          /\ argument = "none" => c = DefaultScrapingConfig
          /\ built = [done |-> FALSE, pc |-> "start", argument |-> argument,
                      given |-> c, config |-> c, errors |-> {}]

\* MyHomeAdvancedScraper.__init__ up to the validation of BaseScraper.__init__
ConstructScraper ==
    LET c == MaximumSpeedOverrides(built.given)
        config_errors == ValidationErrors(c)
    IN  /\ built.pc = "start"
        /\ built' = [built EXCEPT !.done = TRUE,
                                  !.config = c,
                                  !.errors = config_errors,
                                  !.pc = IF config_errors # {} THEN "ValueError"
                                         ELSE "constructed"]
        /\ UNCHANGED <<cfg, stats, pipevars, reqvars, dedupvars, dbvars, hp, ml, mb, ret>>

NextConstruct == ConstructScraper

SpecConstruct == InitConstruct /\ [][NextConstruct]_vars

----------------------------------------------------------------------------
(* Properties of the rate limiter and of make_request *)

\* requests sent in the rolling window (s - 60, s]
SentInWindow(s) == Cardinality({ j \in 1..Len(sent) : s - Window < sent[j] /\ sent[j] <= s })

\* C1: within any rolling 60-second window at most rate_limit_per_minute
\* requests are sent
C1_RateLimitRespected ==
    \A i \in 1..Len(sent) : SentInWindow(sent[i]) <= cfg.rate_limit_per_minute

StrictlyIncreasing(s) == \A i \in 1..(Len(s) - 1) : s[i] < s[i + 1]

\* C7: a call whose every attempt failed with a request error made exactly
\* max_retries attempts, waited strictly increasing delays between them and
\* raised NetworkError
C7_RetryExhaustion ==
    (req.result \notin {"none", "response", "RuntimeError"}) =>
        /\ req.attempts_made = cfg.max_retries
        /\ Len(req.waits) = cfg.max_retries - 1
        /\ StrictlyIncreasing(req.waits)
        /\ req.result = "NetworkError"

AllIdle == \A t \in 1..NumThreads : thr[t].pc = "idle"

Count(s, v) == Cardinality({ i \in 1..Len(s) : s[i] = v })

SeqMax(s) == CHOOSE m \in { s[i] : i \in 1..Len(s) } : \A i \in 1..Len(s) : s[i] <= m

\* every admission not yet older than the window is recorded exactly once
NoAdmissionLost ==
    (AllIdle /\ admitted # <<>>) =>
        \A i \in 1..Len(admitted) :
            (SeqMax(admitted) - admitted[i] < Window) =>
                Count(request_times, admitted[i]) = Count(admitted, admitted[i])

\* C8: under every interleaving of concurrent callers each call reserves
\* exactly one slot (no admission is lost or double-counted) and at most
\* rate_limit_per_minute requests are admitted in any rolling window
C8_ConcurrentCallersSafe == NoAdmissionLost /\ C1_RateLimitRespected

----------------------------------------------------------------------------
(* Properties of the ingestion pipeline *)

\* C2: no two stored properties share the same (external_id, source) pair
C2_UniqueExternalId ==
    \A i, j \in 1..Len(store) :
        i # j => ~(store[i].external_id = store[j].external_id
                   /\ store[i].source = store[j].source)

\* two listings are stored and a later run was offered a stored listing again
C2_Witness == Len(store) >= 2 /\ stats.duplicates_skipped > 0

\* the step handled a page with listings
PageStep == stats'.total_fetched # stats.total_fetched

\* every listing of the page ingested by this step is in the table when
\* the step begins
AllStored ==
    \A k \in 1..Len(page_in'.listings) :
        \E i \in 1..Len(store) : store[i].external_id = page_in'.listings[k].id

C4_BatchAtomic ==
    [][(PageStep /\ stats'.errors > stats.errors) => store' = store]_vars

\* the duplicates find_duplicates reports for the row at position j against
\* the rows stored before it
EarlierDuplicates(j) == FindDuplicates(SubSeq(store, 1, j - 1), store[j], FALSE).duplicates

\* C5: with owner priority enabled, an owner listing is never stored next to
\* an earlier agency row that it matches through the geo or address tier
C5_OwnerReplacesAgency ==
    cfg.enable_owner_priority =>
        \A j \in 2..Len(store) :
            store[j].user_type = "owner" =>
                \A k \in 1..Len(EarlierDuplicates(j)) :
                    store[EarlierDuplicates(j)[k]].user_type # "agency"

\* C6: of two listings of the same priority class that match the same
\* physical unit only the first seen is stored
C6_FirstSeenWins ==
    \A j \in 2..Len(store) :
        \A k \in 1..Len(EarlierDuplicates(j)) :
            store[EarlierDuplicates(j)[k]].user_type # store[j].user_type

\* C10: a new listing that meets a stored row replaces it exactly when owner
\* priority is enabled, the listing is an owner listing and the row an
\* agency listing; otherwise the row stays
C10_ReplaceDecision ==
    [][(PageStep /\ stats'.errors = stats.errors) =>
         \A k \in 1..Len(page_in'.listings) :
            LET raw == page_in'.listings[k]
                property_data == ProcessProperty(raw)
                e == FindExactMatch(store, property_data.external_id)
            IN  (/\ raw.id \notin seen_property_ids
                 /\ \A m \in 1..(k - 1) : page_in'.listings[m].id # raw.id
                 /\ e # 0)
                => IF /\ cfg.enable_owner_priority
                      /\ property_data.user_type = "owner"
                      /\ store[e].user_type = "agency"
                   THEN InSeq(ToRow(property_data), store') /\ ~InSeq(store[e], store')
                   ELSE InSeq(store[e], store')]_vars

\* C13: of the rows a batch inserts, none is a duplicate (by id, geo or
\* address match) of a row the same batch inserted before it
C13_SameBatchConflictsCaught ==
    [][PageStep =>
         \A i, j \in 1..Len(store') :
            (i < j /\ ~InSeq(store'[i], store) /\ ~InSeq(store'[j], store))
            => FindDuplicates(<<store'[i]>>, store'[j], FALSE).duplicates = <<>>]_vars

\* the step is an iteration whose page fetch failed: an error is counted and
\* no listing was fetched
FetchFailedStep == ~PageStep /\ stats'.errors > stats.errors

C15_RolledBackBatchCounted ==
    [][(PageStep /\ page_in'.rolled_back) =>
         (store' = store /\ stats'.errors > stats.errors)]_vars

\* C16: a database error raised by the flush of one record is taken as a
\* skipped duplicate: the batch is committed, no error is counted and the
\* duplicate counter rises
C16_IntegrityConflictIsDuplicate ==
    [][(PageStep /\ page_in'.hit = "flush") =>
         /\ ~page_in'.rolled_back
         /\ stats'.errors = stats.errors
         /\ stats'.duplicates_skipped > stats.duplicates_skipped]_vars

\* C17: a new listing whose (external_id, source) is stored with other
\* field values overwrites the stored row in place, and one row carries
\* that pair afterwards
C17_UpdateInPlace ==
    [][(PageStep /\ page_in'.hit = "none" /\ ~page_in'.rolled_back) =>
         \A k \in 1..Len(page_in'.listings) :
            LET raw == page_in'.listings[k]
                property_data == ProcessProperty(raw)
                e == FindExactMatch(store, property_data.external_id)
            IN  (/\ raw.id \notin seen_property_ids
                 /\ \A m \in 1..(k - 1) : page_in'.listings[m].id # raw.id
                 /\ e # 0
                 /\ store[e] # ToRow(property_data))
                => /\ e <= Len(store')
                   /\ store'[e] = ToRow(property_data)
                   /\ Cardinality({ i \in 1..Len(store') :
                         /\ store'[i].external_id = property_data.external_id
                         /\ store'[i].source = property_data.source }) = 1]_vars

\* the step requests a page from the upstream API
FetchStep == run.pc = "running" /\ Len(run'.requested) = Len(run.requested) + 1

\* C21: no page is requested once the number of listings processed has
\* reached the configured max_properties
C21_RecordCapEndsRun ==
    [][FetchStep => run.properties_processed < ConfiguredMaxProperties]_vars

\* some listing of the page handled by this step has an id not seen before
\* in the run
SomeListingNew ==
    \E k \in 1..Len(page_in'.listings) :
        /\ page_in'.listings[k].id # 0
        /\ page_in'.listings[k].id \notin seen_property_ids

C23_TenPercentRule ==
    [][PageStep =>
         (run'.pc = "idle" <=> 10 * Len(page_in'.listings) < PerPage)]_vars

\* C23 as the code has it: a page with listings ends the run exactly when
\* it has fewer than per_page listings
C23_ShortPageEndsRun ==
    [][PageStep =>
         (run'.pc = "idle" <=> Len(page_in'.listings) < PerPage)]_vars

\* the run ended on a page that had new listings, at least a tenth of
\* per_page but fewer than per_page
C23_Witness ==
    /\ run.pc = "idle"
    /\ run.requested # <<>>
    /\ run.consecutive_empty_pages = 0
    /\ page_in # <<>>
    /\ 10 * Len(page_in.listings) >= PerPage
    /\ Len(page_in.listings) < PerPage

\* C24: the page numbers requested in one run are strictly increasing, and
\* the page requested next is larger than every page requested so far
C24_PagesIncreasing ==
    /\ StrictlyIncreasing(run.requested)
    /\ run.pc = "running"
       => \A i \in 1..Len(run.requested) : run.requested[i] < run.page

\* a run that has requested three pages, the second after a page with
\* listings
C24_Witness ==
    /\ Len(run.requested) = 3
    /\ run.properties_processed > 0
    /\ run.consecutive_empty_pages < MaxConsecutiveEmpty

\* C26: every scrape() starts with all counters at zero
C26_StatsPerRun ==
    [][(run.pc = "idle" /\ run'.pc = "running") => stats' = ZeroStats]_vars

----------------------------------------------------------------------------
(* Properties of find_duplicates *)

Called == fd.consulted # <<>> /\ ~fd.error

ExactRows == { i \in 1..Len(store) :
                 store[i].external_id = cand.external_id /\ store[i].source = Source }

GeoRows == { i \in 1..Len(store) :
               /\ cand.latitude \notin {Null, 0} /\ cand.longitude \notin {Null, 0}
               /\ store[i].latitude # Null /\ store[i].longitude # Null
               /\ store[i].latitude - cand.latitude \in (1 - CoordinateTolerance)..(CoordinateTolerance - 1)
               /\ store[i].longitude - cand.longitude \in (1 - CoordinateTolerance)..(CoordinateTolerance - 1)
               /\ store[i].source = Source }

AddressRows == { i \in 1..Len(store) :
                   /\ cand.address # <<>>
                   /\ store[i].address # <<>>
                   /\ store[i].source = Source
                   /\ AddressSimilar(cand.address, store[i].address) }

SeqSet(s) == { s[i] : i \in 1..Len(s) }

\* C9 as claimed: an exact match is returned alone, and the address tier is
\* not consulted when the geo tier returned a match
C9_TiersShortCircuit ==
    Called =>
        /\ ExactRows # {} => (Len(fd.duplicates) = 1 /\ fd.consulted = <<"exact">>)
        /\ (ExactRows = {} /\ GeoRows # {}) => ~InSeq("address", fd.consulted)

\* C9 as the code has it: an exact match is returned alone and ends the
\* search; without one the geo tier runs for a candidate with coordinates
\* and the address tier for a candidate with an address, whether or not the
\* geo tier matched; the result lists every geo match before every row
\* matched by address only, each row once
C9_TierOrder ==
    Called =>
        IF ExactRows # {}
        THEN /\ Len(fd.duplicates) = 1
             /\ fd.duplicates[1] \in ExactRows
             /\ fd.consulted = <<"exact">>
        ELSE /\ SeqSet(fd.duplicates) = GeoRows \cup AddressRows
             /\ Len(fd.duplicates) = Cardinality(GeoRows \cup AddressRows)
             /\ \A a, b \in 1..Len(fd.duplicates) :
                   (fd.duplicates[a] \in GeoRows /\ fd.duplicates[b] \notin GeoRows) => a < b
             /\ InSeq("address", fd.consulted) = (cand.address # <<>>)
             /\ InSeq("geo", fd.consulted) =
                   (cand.latitude \notin {Null, 0} /\ cand.longitude \notin {Null, 0})

\* find_duplicates ran both tiers and a stored row matches the candidate on
\* both: by coordinates and by address
C9_Witness ==
    /\ Called
    /\ ExactRows = {}
    /\ GeoRows \cap AddressRows # {}
    /\ fd.consulted = <<"exact", "geo", "address">>
    /\ fd.duplicates # <<>>

\* the stored rows whose latitude and longitude both lie less than the
\* tolerance from the candidate's
WithinTolerance ==
    { i \in 1..Len(store) :
        /\ store[i].latitude # Null /\ store[i].longitude # Null
        /\ store[i].latitude < cand.latitude + CoordinateTolerance
        /\ cand.latitude < store[i].latitude + CoordinateTolerance
        /\ store[i].longitude < cand.longitude + CoordinateTolerance
        /\ cand.longitude < store[i].longitude + CoordinateTolerance }

\* C11: the geo tier returns exactly the stored rows that differ from the
\* candidate by less than 1e-4 degree on both axes: for a candidate at
\* (41.0000, 44.0000) a row at (41.00005, 44.00005) matches, a row at
\* (41.0020, 44.0020) does not, nor does a row near on one axis only
C11_GeoMatch ==
    (Called /\ InSeq("geo", fd.consulted)) =>
        /\ SeqSet(fd.coordinate_matches) = WithinTolerance
        /\ (cand.latitude = 4100000 /\ cand.longitude = 4400000) =>
              \A i \in 1..Len(store) :
                 /\ (store[i].latitude = 4100005 /\ store[i].longitude = 4400005)
                       => InSeq(i, fd.coordinate_matches)
                 /\ (store[i].latitude = 4100200 /\ store[i].longitude = 4400200)
                       => ~InSeq(i, fd.coordinate_matches)
                 /\ (store[i].latitude = 4100005 /\ store[i].longitude = 4400200)
                       => ~InSeq(i, fd.coordinate_matches)

\* the geo tier ran for a candidate at (41.0000, 44.0000) against a row
\* 5e-5 degree away, which it matched, and a row near in latitude only,
\* which it did not
C11_Witness ==
    /\ Called
    /\ InSeq("geo", fd.consulted)
    /\ cand.latitude = 4100000 /\ cand.longitude = 4400000
    /\ \E i, j \in 1..Len(store) :
          /\ store[i].latitude = 4100005 /\ store[i].longitude = 4400005
          /\ InSeq(i, fd.coordinate_matches)
          /\ store[j].latitude = 4100005 /\ store[j].longitude = 4400200
          /\ ~InSeq(j, fd.coordinate_matches)

----------------------------------------------------------------------------
(* Properties of the address tier *)

----------------------------------------------------------------------------
(* Properties of DatabaseService *)

\* the values of the rows of a dependent table that belong to a property
OwnValues(rows, property_id) ==
    LET own == SelectSeq(rows, LAMBDA r : r.property_id = property_id)
    IN  [i \in 1..Len(own) |-> own[i].value]

Deleted(r) ==
    /\ InSeq(r, op.before.properties)
    /\ ~InSeq(r, related.properties)

\* the row is of source myhome.ge and its last_scraped is older than the cutoff
OlderThanCutoff(r) ==
    /\ r.source = "myhome.ge"
    /\ r.last_scraped # Null
    /\ r.last_scraped < op.cutoff_date

\* the row is of source myhome.ge and was never scraped
NeverScraped(r) == r.source = "myhome.ge" /\ r.last_scraped = Null

\* cleanup has returned and no statement of it failed
CleanupWithoutFailure ==
    /\ op.name = "cleanup_old_properties"
    /\ op.fail = "none"
    /\ op.failing \cap { r.id : r \in SeqSet(OldProperties(op.before, op.cutoff_date)) } = {}

\* the rows of a dependent table are those whose property is stored
DependentsFollow(rows, before_rows) ==
    rows = SelectSeq(before_rows,
                     LAMBDA d : \E i \in 1..Len(related.properties) :
                                    related.properties[i].id = d.property_id)

C20_FailureIsolated ==
    (op.name = "cleanup_old_properties" /\ op.fail = "none")
    => \A r \in SeqSet(OldProperties(op.before, op.cutoff_date)) :
          r.id \notin op.failing => Deleted(r)

----------------------------------------------------------------------------
(* Properties of process_property *)

\* process_property has returned a record
Normalized == norm.done /\ norm.property_data # NoPropertyData

\* C27: process_property returns None exactly for a raw listing without an id
C27_NoneIffNoId ==
    norm.done => (norm.property_data = NoPropertyData <=> norm.raw.id = 0)

\* C28: a type code of the configured table yields the value the table
\* assigns to it, any other code the default
C28_TypesFromTables ==
    Normalized
    => /\ norm.property_data.property_type =
             IF norm.raw.real_estate_type_id \in DOMAIN PropertyTypes
             THEN PropertyTypes[norm.raw.real_estate_type_id] ELSE "apartment"
       /\ norm.property_data.listing_type =
             IF norm.raw.deal_type_id \in DOMAIN DealTypes
             THEN DealTypes[norm.raw.deal_type_id] ELSE "rent"

\* the coordinates lie within config.coordinate_bounds
InBounds(latitude, longitude) ==
    /\ CoordinateBounds.lat_min <= latitude /\ latitude <= CoordinateBounds.lat_max
    /\ CoordinateBounds.lng_min <= longitude /\ longitude <= CoordinateBounds.lng_max

\* C29: normalization never fails on coordinates, and a record has latitude
\* and longitude both null, or both set and within the configured bounds
C29_CoordinatesInBounds ==
    norm.done
    => /\ (norm.raw.lat \notin {Null, BadNumber} /\ norm.raw.lng \notin {Null, BadNumber})
          => norm.property_data # NoPropertyData
       /\ Normalized
          => \/ /\ norm.property_data.latitude = Null
                /\ norm.property_data.longitude = Null
             \/ /\ norm.property_data.latitude # Null
                /\ norm.property_data.longitude # Null
                /\ InBounds(norm.property_data.latitude, norm.property_data.longitude)

\* the images of the record flagged primary
PrimaryImages ==
    { i \in 1..Len(norm.property_data.images) : norm.property_data.images[i].is_primary }

\* C30: a record has at most one primary image, and exactly one when it has
\* an image
C30_OnePrimaryImage ==
    Normalized
    => /\ Cardinality(PrimaryImages) <= 1
       /\ norm.property_data.images # <<>> => Cardinality(PrimaryImages) = 1

----------------------------------------------------------------------------
(* Properties of cancellation *)

\* after shutdown_requested is set no batch of pages is started
NoBatchAfterShutdown ==
    [][(hp.pc = "loop" /\ hp'.pc = "batch") => ~hp.shutdown_requested]_vars

\* C25: a batch in flight when cancellation is requested runs to completion
\* as a whole: none of its pages is given up because of the cancellation
C25_InFlightBatchCompletes ==
    \A p \in hp.batch_pages : hp.result[p] # "cancelled"

\* what reaches the output after a cancelled batch: one part of the batch
PartBatchWritten ==
    \E p, q \in hp.batch_pages :
        /\ hp.result[p] = "data" /\ hp.result[q] = "cancelled"
        /\ \E i \in 1..Len(hp.written) : hp.written[i] = p

----------------------------------------------------------------------------
(* Properties of the multilingual enrichment *)

\* process_multilingual_content has gone through both languages
BothLanguagesTried == ml.pc \in {"processed", "done"} /\ Len(ml.fetched) = 2

\* no language returned content
AllFetchesFailed == \A i \in 1..Len(ml.fetched) : ml.fetched[i] = NoContent

\* the text contains a term of the translation map
HasKnownTerm(text) ==
    \E k \in 1..Len(TranslationMap) : ContainsText(OrEmpty(text), TranslationMap[k].ka)

\* the fallback rule: after a failure for every language a text with a
\* known term has its two translations set, and after a success the
\* fallback is not applied
FallbackRule ==
    /\ (AllFetchesFailed /\ HasKnownTerm(ml.property_data.title))
         => TruthyText(ml.property_data.title_en) /\ TruthyText(ml.property_data.title_ru)
    /\ (AllFetchesFailed /\ HasKnownTerm(ml.property_data.description))
         => /\ TruthyText(ml.property_data.description_en)
            /\ TruthyText(ml.property_data.description_ru)
    /\ ml.api_success => ~ml.fallback

\* C31: when the detail fetch fails for every language the dictionary
\* fallback fills the translated fields of a record with a known term; when
\* a fetch succeeds the fallback is not applied
C31_FallbackOnTotalFailure == BothLanguagesTried => FallbackRule

\* the same for the processor of multilingual-worker alone
StandaloneFallbackRule ==
    (BothLanguagesTried /\ ml.setup.worker = "standalone") => FallbackRule

\* the step in which process_single_property compares and writes
EnrichWriteStep == ml.pc = "processed" /\ ml'.pc = "done"

\* C32: after a successful enrichment a translated field of the row changes
\* only when the fetched value is non-empty and differs from the stored
\* one, and the database is written only when some field changes
C32_OnlyChangedFieldsWritten ==
    [][(EnrichWriteStep /\ ml.api_success /\ ml.row # GoneRow)
       => /\ \A f \in TranslatedFields :
                ml'.row[f] # ml.row[f]
                => TruthyText(ml.property_data[f]) /\ ml.property_data[f] # ml.row[f]
          /\ ml'.wrote => \E f \in TranslatedFields : ml'.row[f] # ml.row[f]]_vars

\* a successful enrichment wrote the Russian title and left the Russian
\* description, for which nothing was fetched, as it was
C32_Witness ==
    /\ ml.pc = "done" /\ ml.api_success /\ ml.wrote /\ ml.row # GoneRow
    /\ ml.row.title_ru # ml.read.title_ru
    /\ ml.row.description_ru = ml.read.description_ru

\* a detail fetch is made
DetailFetchStep == Len(ml'.fetched) = Len(ml.fetched) + 1

\* C33: every detail fetch is entered in the rolling window of the rate
\* limiter, and a failed one has been tried max_retries times
C33_DetailFetchRateLimited ==
    [][DetailFetchStep
       => /\ Len(request_times') = Len(request_times) + 1
          /\ ml'.fetched[Len(ml'.fetched)] = NoContent
               => ml'.attempts[Len(ml'.attempts)] = cfg.max_retries]_vars

\* C39: a write for a row changed or deleted since the worker read it
\* leaves the other columns as they are and does not bring a deleted row
\* back
C39_WriteTouchesOnlyTranslations ==
    [][(EnrichWriteStep /\ ml'.wrote /\ ml.row # ml.read)
       => IF ml.row = GoneRow THEN ml'.row = GoneRow
          ELSE \A f \in DOMAIN ml.row \ TranslatedFields : ml'.row[f] = ml.row[f]]_vars

----------------------------------------------------------------------------
(* Properties of retention *)

\* a run confirms a listing that is stored: its row has last_scraped set
\* to the time of the run afterwards
ConfirmedRowsRefreshed ==
    [][ret'.last = "run"
       => \A i \in 1..Len(ret'.table) :
             ret'.last_confirmed[ret'.table[i].external_id] = now
             => ret'.table[i].last_scraped = now]_vars

\* cleanup deletes no listing that a run confirmed within the retention
\* window
ConfirmedRowsKept ==
    \A e \in ret.deleted :
        ret.last_confirmed[e] = Null \/ ret.last_confirmed[e] < CutoffDate(now)

\* C34: a run refreshes last_scraped of the stored listings it confirms, so
\* cleanup never deletes a listing that the runs keep confirming
C34_ReconfirmedNeverDeleted == ret.last = "cleanup" => ConfirmedRowsKept

----------------------------------------------------------------------------
(* Properties of a run against repeated data *)

\* full pages of already-seen records handled in a row by the running
\* scrape: every page after the first one
RepeatedPagesHandled == IF run.requested = <<>> THEN 0 ELSE Len(run.requested) - 1

\* C35: against an upstream that keeps returning the same full page the run
\* ends once 3 consecutive pages held only records already seen
C35_RepeatedDataEndsRun ==
    (run.pc = "running" /\ page_in # <<>> /\ page_in.repeat)
    => RepeatedPagesHandled < MaxConsecutiveEmpty

----------------------------------------------------------------------------
(* Properties of the construction *)

\* C36: constructing MyHomeAdvancedScraper with the default ScrapingConfig
\* succeeds
C36_DefaultConstructionSucceeds ==
    (built.done /\ built.given = DefaultScrapingConfig) => built.pc = "constructed"

\* no configuration at all passes the validation after the overrides
ConstructionAlwaysRaises ==
    built.done => "batch_size must be between 1 and 1000" \in built.errors

----------------------------------------------------------------------------
(* Properties of _process_single_property *)

\* C37: a candidate whose duplicate lookup failed is not taken for a
\* listing without duplicates: the handler does not go on to save it
C37_LookupErrorNotNew ==
    (fd.consulted # <<>> /\ fd.error) => fd.reached # "save"

\* the handler cannot tell a failed lookup from one that found nothing
LookupErrorAsNoDuplicate ==
    (fd.consulted # <<>> /\ fd.error) => (fd.duplicates = <<>> /\ fd.reached = "save")

\* no call of the handler stores a record
NothingSavedByHandler ==
    fd.consulted # <<>> => (fd.reached = "save" => fd.raised = "AttributeError")

----------------------------------------------------------------------------
(* Properties of request_semaphore *)

\* no task of fetch_page_async is between its acquire and its return
NoFetchInFlight == hp.pc # "idle" /\ hp.holding = {}

\* C38: every permit acquired is released on every exit of
\* fetch_page_async, so with no fetch in flight the semaphore holds
\* max_concurrent permits
C38_PermitsReturned == NoFetchInFlight => hp.permits = hp.max_concurrent

\* a task waits in acquire although no task holds a permit
FetchBlockedForever ==
    /\ hp.pc = "batch"
    /\ hp.holding = {}
    /\ hp.permits = 0
    /\ \E p \in hp.batch_pages : hp.result[p] = "pending"

\* no fetch waits for a permit that nothing can release
NoFetchBlockedForever == ~FetchBlockedForever

\* without shutdown the permits come back
PermitsReturnedWithoutShutdown ==
    (NoFetchInFlight /\ ~hp.shutdown_requested) => hp.permits = hp.max_concurrent

----------------------------------------------------------------------------
(* Properties of run_multilingual_batch *)

\* C40: when run_multilingual_batch without max_properties has ended,
\* every property that needed multilingual content has been processed
C40_EveryPropertyProcessed ==
    mb.pc = "done" => mb.needing \subseteq mb.handled

\* a property handed to the worker in one pass is not selected again
NoReselection ==
    [][(mb.pc = "loop" /\ mb'.pc = "loop")
       => SeqRange(mb'.properties) \cap mb.handled = {}]_vars

\* when every listing obtains all its translations, all are processed
AllProcessedWhenTranslatable ==
    (mb.pc = "done"
     /\ \A i \in 1..Len(mb.upstream) :
           mb.upstream[i] = [title |-> <<"T">>, description |-> <<"D">>])
    => mb.needing \subseteq mb.handled

====
